--------------------------- MODULE ProtocolProofs ---------------------------
(***************************************************************************)
(* Protocol is an invariant of LuaGuardia, what follows from it, and that  *)
(* LuaGuardia implements RemoteCalls: for every set of sessions, modes,    *)
(* enclave ids, number of calls and accept queue length.  Every step of a  *)
(* client and of the server is taken apart into what it does to the        *)
(* session that takes it, for which the lemmas of LuaGuardiaProofs are     *)
(* cited, and what it leaves.                                              *)
(***************************************************************************)
EXTENDS LuaGuardiaProofs

-----------------------------------------------------------------------------
(* Counting executed requests.                                             *)

LEMMA DoneType ==
  ASSUME TypeOK, NEW q
  PROVE  Done(q) \in Nat
  <1>1. Len(ran) \in Nat
    BY DEF TypeOK, ServerTypeOK
  <1>2. IsFiniteSet(1..Len(ran))
    BY <1>1, FS_Interval
  <1>3. IsFiniteSet({i \in 1..Len(ran) : ran[i].s = q})
    BY <1>2, FS_Subset
  <1> QED BY <1>3, FS_CardinalityType DEF Done

LEMMA DoneGrows ==
  ASSUME TypeOK, NEW r \in Request, ran' = Append(ran, r), NEW q
  PROVE  Done(q)' = IF r.s = q THEN Done(q) + 1 ELSE Done(q)
  <1> DEFINE I == {i \in 1..Len(ran) : ran[i].s = q}
             J == {i \in 1..Len(ran') : ran'[i].s = q}
             n == Len(ran)
  <1>1. /\ n \in Nat /\ Len(ran') = n + 1 /\ ran'[n + 1] = r
        /\ \A i \in 1..n : ran'[i] = ran[i]
    BY DEF TypeOK, ServerTypeOK
  <1>2. IsFiniteSet(I) /\ n + 1 \notin I
    <2>1. IsFiniteSet(1..n)
      BY <1>1, FS_Interval
    <2> QED BY <1>1, <2>1, FS_Subset
  <1>3. CASE r.s = q
    <2>1. J = I \union {n + 1}
      BY <1>1, <1>3
    <2> HIDE DEF I, J
    <2>2. Cardinality(J) = Cardinality(I) + 1
      BY <1>2, <2>1, FS_AddElement
    <2> QED BY <1>3, <2>2 DEF Done, I, J
  <1>4. CASE r.s # q
    <2>1. J = I
      BY <1>1, <1>4
    <2> QED BY <1>4, <2>1 DEF Done
  <1> QED BY <1>3, <1>4

-----------------------------------------------------------------------------
(* The sessions that do not take the step.                                 *)

LEMMA WaitsAnyway ==
  ASSUME NEW s, NEW c, NEW u, NEW d, NEW k, NEW em, NEW e, NEW files, NEW gone,
         Fits(s, c, u, d, "waits", k, em, e, files, gone),
         NEW em1, NEW e1, NEW files1, NEW gone1, s \in gone1 <=> s \in gone
  PROVE  Fits(s, c, u, d, "waits", k, em1, e1, files1, gone1)
  <1>1. UpFits(s, c, u, "waits", k, em1, files1, gone1)
    BY DEF Fits, UpFits, Early, Line
  <1>2. s \notin gone => LiveFits(s, c, u, d, "waits", k, em1, e1, files1)
    <2> SUFFICES ASSUME s \notin gone, LiveFits(s, c, u, d, "waits", k, em, e, files)
                 PROVE  LiveFits(s, c, u, d, "waits", k, em1, e1, files1)
      BY DEF Fits
    <2>1. EnclaveFits(s, c, "waits", k, em1, e1)
      BY DEF EnclaveFits, Early
    <2>2. c.mode = 1 => Shakes(s, c, d, "waits", e1)
      BY DEF LiveFits, Shakes, Early, Serving
    <2> QED BY <2>1, <2>2 DEF LiveFits, Setup, Early, Serving
  <1> QED BY <1>1, <1>2 DEF Fits

LEMMA SameGone ==
  ASSUME NEW s, NEW c, NEW u, NEW d, NEW p, NEW k, NEW em, NEW e, NEW files, NEW gone,
         Fits(s, c, u, d, p, k, em, e, files, gone), NEW gone1, s \in gone1 <=> s \in gone
  PROVE  Fits(s, c, u, d, p, k, em, e, files, gone1)
  <1>1. UpFits(s, c, u, p, k, em, files, gone1)
    BY DEF Fits, UpFits, Line
  <1> QED BY <1>1 DEF Fits

LEMMA Unmoved ==
  ASSUME NEW r \in Sessions, SessionOK(r),
         cli'[r] = cli[r], c2s'[r] = c2s[r], s2c'[r] = s2c[r],
         r \in fin' <=> r \in fin, Done(r)' = Done(r), Srv(r)' = Srv(r),
         \/ Srv(r) = "waits"
         \/ UNCHANGED <<encryption_mode, Current, disk>>
  PROVE  SessionOK(r)'
  <1>1. CASE Srv(r) = "waits"
    <2>1. Fits(r, cli[r], c2s[r], s2c[r], "waits", Done(r), encryption_mode', Current',
               disk', fin')
      BY <1>1, WaitsAnyway DEF SessionOK
    <2> QED BY <1>1, <2>1 DEF SessionOK
  <1>2. CASE UNCHANGED <<encryption_mode, Current, disk>>
    <2>1. Fits(r, cli[r], c2s[r], s2c[r], Srv(r), Done(r), encryption_mode, Current,
               disk, fin')
      BY SameGone DEF SessionOK
    <2> QED BY <1>2, <2>1 DEF SessionOK
  <1> QED BY <1>1, <1>2

\* Where the server can be with a session.
LEMMA SrvPlace ==
  ASSUME TypeOK, NEW s
  PROVE  Srv(s) \in Place
  BY DEF Srv, Place, Setup, Serving, TypeOK, ServerTypeOK, ServerPc

-----------------------------------------------------------------------------
(* What each step of a client does to its own record and streams.          *)

StreamsType ==
  /\ cli \in [Sessions -> ClientState]
  /\ c2s \in [Sessions -> Seq(UpUnit)]
  /\ s2c \in [Sessions -> Seq(DownUnit)]

LEMMA Streams == TypeOK => StreamsType
  BY DEF TypeOK, WireTypeOK, ClientTypeOK, StreamsType

LEMMA ConnectMoves ==
  ASSUME StreamsType, NEW s \in Sessions, Connect(s)
  PROVE  \E m \in Modes, mod \in BOOLEAN :
           /\ cli'[s] = [cli[s] EXCEPT !.pc = IF m = 1 THEN "handshake" ELSE "count",
                                       !.mode = m, !.module = mod]
           /\ c2s'[s] = Append(c2s[s], TheInt(m))
  <1>1. PICK m \in Modes, mod \in BOOLEAN :
          /\ cli' = [cli EXCEPT ![s].pc = IF m = 1 THEN "handshake" ELSE "count",
                                ![s].mode = m, ![s].module = mod]
          /\ SendUp(s, TheInt(m))
    BY Zenon DEF Connect
  <1> DEFINE p == IF m = 1 THEN "handshake" ELSE "count"
  <1>2. cli' = [cli EXCEPT ![s].pc = p, ![s].mode = m, ![s].module = mod]
    BY <1>1
  <1> HIDE DEF p
  <1>3. cli'[s] = [cli[s] EXCEPT !.pc = p, !.mode = m, !.module = mod]
    BY <1>2 DEF StreamsType
  <1>4. c2s'[s] = Append(c2s[s], TheInt(m))
    BY <1>1 DEF StreamsType, SendUp
  <1>6. cli'[s] = [cli[s] EXCEPT !.pc = IF m = 1 THEN "handshake" ELSE "count",
                                 !.mode = m, !.module = mod]
    BY <1>3 DEF p
  <1> QED BY Zenon, <1>4, <1>6

LEMMA HandshakeMoves ==
  ASSUME StreamsType, NEW s \in Sessions
  PROVE  /\ SendPublicKey(s) => /\ cli'[s] = [cli[s] EXCEPT !.pc = "spk"]
                                /\ c2s'[s] = Append(c2s[s], TheClientKey(s))
         /\ RecvServerKey(s) =>
              \/ /\ s2c[s] # <<>> /\ s2c'[s] = Tail(s2c[s])
                 /\ cli'[s] = [cli[s] EXCEPT !.pc = "half1", !.spk = Head(s2c[s]).v]
              \/ EofDown(s) /\ s2c' = s2c /\ cli'[s] = [cli[s] EXCEPT !.pc = "half1"]
         /\ RecvHalf(s) =>
              LET v == Opened(s, Head(s2c[s])) IN
              /\ s2c[s] # <<>> /\ s2c'[s] = Tail(s2c[s])
              /\ cli[s].pc = "half1" =>
                   cli'[s] = [cli[s] EXCEPT !.pc = "half2", !.half = v]
              /\ cli[s].pc # "half1" =>
                   cli'[s] = [cli[s] EXCEPT !.pc = "count",
                                            !.key = IF v = cli[s].half THEN v ELSE Zero]
  <1>1. SendPublicKey(s) => /\ cli'[s] = [cli[s] EXCEPT !.pc = "spk"]
                            /\ c2s'[s] = Append(c2s[s], TheClientKey(s))
    BY DEF StreamsType, SendPublicKey, SendUp
  <1>2. RecvServerKey(s) =>
          \/ /\ s2c[s] # <<>> /\ s2c'[s] = Tail(s2c[s])
             /\ cli'[s] = [cli[s] EXCEPT !.pc = "half1", !.spk = Head(s2c[s]).v]
          \/ EofDown(s) /\ s2c' = s2c /\ cli'[s] = [cli[s] EXCEPT !.pc = "half1"]
    BY DEF StreamsType, RecvServerKey, TakeDown, ArrivedDown
  <1>3. ASSUME RecvHalf(s)
        PROVE  LET v == Opened(s, Head(s2c[s])) IN
               /\ s2c[s] # <<>> /\ s2c'[s] = Tail(s2c[s])
               /\ cli[s].pc = "half1" =>
                    cli'[s] = [cli[s] EXCEPT !.pc = "half2", !.half = v]
               /\ cli[s].pc # "half1" =>
                    cli'[s] = [cli[s] EXCEPT !.pc = "count",
                                             !.key = IF v = cli[s].half THEN v ELSE Zero]
    <2> DEFINE v == Opened(s, Head(s2c[s]))
               key == IF v = cli[s].half THEN v ELSE Zero
    <2> HIDE DEF v
    <2>1. cli' = IF cli[s].pc = "half1"
                 THEN [cli EXCEPT ![s].pc = "half2", ![s].half = v]
                 ELSE [cli EXCEPT ![s].pc = "count", ![s].key = key]
      BY <1>3 DEF RecvHalf, v
    <2>2. s2c[s] # <<>> /\ s2c'[s] = Tail(s2c[s])
      BY <1>3 DEF RecvHalf, ArrivedDown, TakeDown, StreamsType
    <2> HIDE DEF key
    <2>3. cli[s].pc = "half1" => cli'[s] = [cli[s] EXCEPT !.pc = "half2", !.half = v]
      BY <2>1 DEF StreamsType
    <2>4. cli[s].pc # "half1" => cli'[s] = [cli[s] EXCEPT !.pc = "count", !.key = key]
      BY <2>1 DEF StreamsType
    <2> QED BY <2>2, <2>3, <2>4 DEF v, key
  <1> QED BY <1>1, <1>2, <1>3

LEMMA CallMoves ==
  ASSUME StreamsType, NEW s \in Sessions, Call(s)
  PROVE  IF Sends(cli[s].mode)
         THEN /\ cli'[s] = [cli[s] EXCEPT !.pc = "response", !.calls = @ + 1]
              /\ c2s'[s] = Append(c2s[s], NextUnit(s))
         ELSE cli'[s] = [cli[s] EXCEPT !.pc = "timers"] /\ c2s'[s] = c2s[s]
  <1>1. CASE Sends(cli[s].mode)
    <2>1. /\ cli' = [cli EXCEPT ![s].pc = "response", ![s].calls = @ + 1]
          /\ SendUp(s, NextUnit(s))
      BY <1>1 DEF Call
    <2> QED BY <1>1, <2>1 DEF SendUp, StreamsType
  <1>2. CASE ~Sends(cli[s].mode)
    BY <1>2 DEF Call, StreamsType
  <1> QED BY <1>1, <1>2

LEMMA UploadMoves ==
  ASSUME StreamsType, NEW s \in Sessions, SendModules(s)
  PROVE  /\ cli'[s] = [cli[s] EXCEPT !.pc =
                         IF @ = "count" THEN IF cli[s].module THEN "file" ELSE "ready"
                         ELSE IF @ = "file" THEN "name" ELSE "ready"]
         /\ c2s'[s] = Append(c2s[s], NextUnit(s))
  BY DEF StreamsType, SendModules, SendUp

LEMMA ResponseMoves ==
  ASSUME StreamsType, NEW s \in Sessions, RecvResponse(s)
  PROVE  \/ /\ s2c[s] # <<>> /\ s2c'[s] = Tail(s2c[s])
            /\ cli'[s] = [cli[s] EXCEPT !.pc = "timers",
                            !.got = Append(@, View(Head(s2c[s]), cli[s].key))]
         \/ /\ EofDown(s) /\ s2c' = s2c
            /\ cli'[s] = [cli[s] EXCEPT !.pc = "timers", !.got = Append(@, Lost)]
  BY DEF StreamsType, RecvResponse, TakeDown, ArrivedDown, Lost

LEMMA TimersMoves ==
  ASSUME StreamsType, NEW s \in Sessions, RecvTimers(s)
  PROVE  /\ cli'[s] = [cli[s] EXCEPT !.pc = IF Sends(cli[s].mode) THEN "ready"
                                            ELSE "closed"]
         /\ \/ s2c[s] # <<>> /\ s2c'[s] = Tail(s2c[s])
            \/ EofDown(s) /\ s2c' = s2c
  BY DEF StreamsType, RecvTimers, TakeDown, ArrivedDown

LEMMA LeaveMoves ==
  ASSUME StreamsType, NEW s \in Sessions
  PROVE  /\ Leave(s) => cli'[s] = [cli[s] EXCEPT !.pc = "closed"]
         /\ CrashConnecting(s) => cli'[s] = [cli[s] EXCEPT !.pc = "closed"]
  BY DEF StreamsType, Leave, CrashConnecting

-----------------------------------------------------------------------------
(* A step of a client.                                                     *)

ClientAct(s) == Step(s) \/ Kill(s)

\* The other sessions are left alone.
OnlyOf(s) ==
  \A r \in Sessions \ {s} :
    /\ cli'[r] = cli[r] /\ c2s'[r] = c2s[r] /\ s2c'[r] = s2c[r]
    /\ r \in fin' <=> r \in fin

OneRecord(s) == \E c : cli' = [cli EXCEPT ![s] = c]
OneWrites(s) == c2s' = c2s \/ \E m : SendUp(s, m)
OneReads(s)  == s2c' = s2c \/ TakeDown(s)
OneLeaves(s) == fin' = fin \/ fin' = fin \union {s}

LEMMA ClientFrame ==
  ASSUME TypeOK, NEW s \in Sessions, ClientAct(s)
  PROVE  /\ up' = up /\ UNCHANGED server
         /\ cli[s].pc # "closed"
         /\ OnlyOf(s)
  <1>1. /\ OneRecord(s) /\ OneWrites(s) /\ OneReads(s) /\ OneLeaves(s)
        /\ up' = up /\ cli[s].pc # "closed"
    <2>1. CASE Connect(s)
      <3>1. OneRecord(s)
        <4>1. PICK m \in Modes, mod \in BOOLEAN :
                cli' = [cli EXCEPT ![s].pc = IF m = 1 THEN "handshake" ELSE "count",
                                   ![s].mode = m, ![s].module = mod]
          BY <2>1, Zenon DEF Connect
        <4> DEFINE p == IF m = 1 THEN "handshake" ELSE "count"
        <4>2. cli' = [cli EXCEPT ![s].pc = p, ![s].mode = m, ![s].module = mod]
          BY <4>1
        <4> HIDE DEF p
        <4> QED BY <4>2 DEF OneRecord
      <3>2. OneWrites(s) /\ OneReads(s) /\ OneLeaves(s) /\ up' = up /\ cli[s].pc # "closed"
        BY <2>1 DEF Connect, OneWrites, OneReads, OneLeaves
      <3> QED BY <3>1, <3>2
    <2>2. CASE SendPublicKey(s)
      <3>1. OneRecord(s)
        BY <2>2 DEF SendPublicKey, OneRecord
      <3>2. OneWrites(s)
        BY <2>2 DEF SendPublicKey, OneWrites
      <3>3. OneReads(s) /\ OneLeaves(s) /\ up' = up /\ cli[s].pc # "closed"
        BY <2>2 DEF SendPublicKey, OneReads, OneLeaves
      <3> QED BY <3>1, <3>2, <3>3
    <2>3. CASE RecvServerKey(s)
      <3>1. OneRecord(s)
        BY <2>3 DEF RecvServerKey, OneRecord
      <3>2. OneWrites(s)
        BY <2>3 DEF RecvServerKey, OneWrites
      <3>3. OneReads(s) /\ OneLeaves(s) /\ up' = up /\ cli[s].pc # "closed"
        BY <2>3 DEF RecvServerKey, OneReads, OneLeaves
      <3> QED BY <3>1, <3>2, <3>3
    <2>4. CASE RecvHalf(s)
      <3>1. OneRecord(s)
        BY <2>4 DEF RecvHalf, OneRecord
      <3>2. OneWrites(s)
        BY <2>4 DEF RecvHalf, OneWrites
      <3>3. OneReads(s) /\ OneLeaves(s) /\ up' = up /\ cli[s].pc # "closed"
        BY <2>4 DEF RecvHalf, OneReads, OneLeaves
      <3> QED BY <3>1, <3>2, <3>3
    <2>5. CASE SendModules(s)
      <3>1. OneRecord(s)
        BY <2>5 DEF SendModules, OneRecord
      <3>2. OneWrites(s)
        BY <2>5 DEF SendModules, OneWrites
      <3>3. OneReads(s) /\ OneLeaves(s) /\ up' = up /\ cli[s].pc # "closed"
        BY <2>5 DEF SendModules, OneReads, OneLeaves
      <3> QED BY <3>1, <3>2, <3>3
    <2>6. CASE Call(s)
      <3>1. OneRecord(s)
        BY <2>6 DEF Call, OneRecord
      <3>2. OneWrites(s)
        BY <2>6 DEF Call, OneWrites
      <3>3. OneReads(s) /\ OneLeaves(s) /\ up' = up /\ cli[s].pc # "closed"
        BY <2>6 DEF Call, OneReads, OneLeaves
      <3> QED BY <3>1, <3>2, <3>3
    <2>7. CASE RecvResponse(s)
      <3>1. OneRecord(s)
        BY <2>7 DEF RecvResponse, OneRecord
      <3>2. OneWrites(s)
        BY <2>7 DEF RecvResponse, OneWrites
      <3>3. OneReads(s) /\ OneLeaves(s) /\ up' = up /\ cli[s].pc # "closed"
        BY <2>7 DEF RecvResponse, OneReads, OneLeaves
      <3> QED BY <3>1, <3>2, <3>3
    <2>8. CASE RecvTimers(s)
      <3>1. OneRecord(s)
        BY <2>8 DEF RecvTimers, OneRecord
      <3>2. OneWrites(s)
        BY <2>8 DEF RecvTimers, OneWrites
      <3>3. OneReads(s) /\ OneLeaves(s) /\ up' = up /\ cli[s].pc # "closed"
        BY <2>8 DEF RecvTimers, OneReads, OneLeaves
      <3> QED BY <3>1, <3>2, <3>3
    <2>9. CASE Close(s) \/ Fail(s) \/ Kill(s)
      <3>1. OneRecord(s)
        BY <2>9 DEF Close, Fail, Kill, Crash, CrashConnecting, Leave, OneRecord
      <3>2. OneWrites(s)
        BY <2>9 DEF Close, Fail, Kill, Crash, CrashConnecting, Leave, OneWrites
      <3>3. OneReads(s) /\ OneLeaves(s) /\ up' = up /\ cli[s].pc # "closed"
        BY <2>9 DEF Close, Fail, Kill, Crash, CrashConnecting, Leave, OneReads, OneLeaves
      <3> QED BY <3>1, <3>2, <3>3
    <2> QED BY <2>1, <2>2, <2>3, <2>4, <2>5, <2>6, <2>7, <2>8, <2>9 DEF ClientAct, Step, ClientStep
  <1>2. UNCHANGED server
    BY DEF ClientAct, Step, Kill
  <1>3. ASSUME NEW r \in Sessions \ {s}
        PROVE  /\ cli'[r] = cli[r] /\ c2s'[r] = c2s[r] /\ s2c'[r] = s2c[r]
               /\ r \in fin' <=> r \in fin
    <2>1. cli'[r] = cli[r]
      BY <1>1, Streams DEF OneRecord, StreamsType
    <2>2. c2s'[r] = c2s[r]
      BY <1>1, Streams DEF OneWrites, StreamsType, SendUp
    <2>3. s2c'[r] = s2c[r]
      BY <1>1, Streams DEF OneReads, StreamsType, TakeDown
    <2>4. r \in fin' <=> r \in fin
      BY <1>1 DEF OneLeaves
    <2> QED BY <2>1, <2>2, <2>3, <2>4
  <1> QED BY <1>1, <1>2, <1>3 DEF OnlyOf

\* The unit a client writes next is the one the server expects.
LEMMA WritesNext ==
  ASSUME StreamsType, NEW s \in Sessions,
         cli[s].pc \in {"file", "name"} => cli[s].module
  PROVE  /\ cli[s].pc \in {"count", "file", "name"} =>
              NextUnit(s) = Unit(s, cli[s], Written(cli[s]))
         /\ cli[s].pc = "ready" =>
              NextUnit(s) = Code(s, [cli[s] EXCEPT !.pc = "response", !.calls = @ + 1])
         /\ NextUnit(s) \in UpUnit
  <1> DEFINE c == cli[s]
  <1>1. c \in ClientState
    BY DEF StreamsType
  <1>2. /\ CountAt(c) \in Nat /\ CountAt(c) >= 1 /\ CodeAt(c) \in Nat
        /\ c.module => CodeAt(c) = CountAt(c) + 3
    BY <1>1, Places
  <1>3. NextUnit(s) \in UpUnit
    BY NextUnitType DEF StreamsType, ClientTypeOK
  <1> HIDE DEF c
  <1>4. c.pc = "count" => NextUnit(s) = Unit(s, c, Written(c))
    <2>1. c.pc = "count" => Written(c) = CountAt(c) /\ CountAt(c) # 0
      BY <1>2 DEF Written
    <2> QED BY <2>1 DEF NextUnit, Unit, c
  <1>5. c.pc = "file" => NextUnit(s) = Unit(s, c, Written(c))
    <2>1. c.pc = "file" => /\ Written(c) = CountAt(c) + 1 /\ CountAt(c) + 1 # 0
                           /\ CountAt(c) + 1 # CountAt(c) /\ CountAt(c) + 1 # CodeAt(c)
                           /\ CountAt(c) + 1 # 1
      BY <1>2 DEF Written, c
    <2> QED BY <2>1 DEF NextUnit, Unit, c
  <1>6. c.pc = "name" => NextUnit(s) = Unit(s, c, Written(c))
    <2>1. c.pc = "name" => /\ Written(c) = CountAt(c) + 2 /\ CountAt(c) + 2 # 0
                           /\ CountAt(c) + 2 # CountAt(c) /\ CountAt(c) + 2 # CodeAt(c)
                           /\ CountAt(c) + 2 # 1 /\ CountAt(c) + 2 # CountAt(c) + 1
      BY <1>2 DEF Written, c
    <2> QED BY <2>1 DEF NextUnit, Unit, c
  <1>7. c.pc = "ready" =>
          NextUnit(s) = Code(s, [c EXCEPT !.pc = "response", !.calls = @ + 1])
    BY <1>1 DEF NextUnit, Code, CallOf, RequestOf, ClientState, c
  <1> QED BY <1>3, <1>4, <1>5, <1>6, <1>7 DEF c

\* While the server is up, the client that takes a step stays in the protocol.
LEMMA ClientSession ==
  ASSUME TypeOK, TypeOK', NEW s \in Sessions, ClientAct(s), up, SessionOK(s),
         s \in fin => cli[s].pc = "closed"
  PROVE  SessionOK(s)'
  <1>0. StreamsType
    BY Streams
  <1>1. UNCHANGED server /\ s \notin fin
    BY ClientFrame
  <1>2. PICK c, u, d, p, k, em, e, files, gone :
          /\ c = cli[s] /\ u = c2s[s] /\ d = s2c[s] /\ p = Srv(s) /\ k = Done(s)
          /\ em = encryption_mode /\ e = Current /\ files = disk /\ gone = fin
    OBVIOUS
  <1>3. PICK c1, u1, d1, gone1 : c1 = cli'[s] /\ u1 = c2s'[s] /\ d1 = s2c'[s] /\ gone1 = fin'
    OBVIOUS
  <1>4. /\ c \in ClientState /\ c1 \in ClientState
        /\ u \in Seq(UpUnit) /\ d \in Seq(DownUnit)
    BY <1>0, <1>2, <1>3 DEF StreamsType, TypeOK, ClientTypeOK
  <1>5. p \in Place /\ k \in Nat
    BY <1>2, SrvPlace, DoneType
  <1>6. s \notin gone
    BY <1>1, <1>2
  <1>7. Fits(s, c, u, d, p, k, em, e, files, gone)
    BY <1>2 DEF SessionOK
  <1>8. SUFFICES Fits(s, c1, u1, d1, p, k, em, e, files, gone1)
    <2>1. /\ Srv(s)' = p /\ Done(s)' = k /\ encryption_mode' = em /\ Current' = e
          /\ disk' = files
      BY <1>1, <1>2 DEF server, host, sgx, Srv, Done, Current
    <2> QED BY <1>3, <2>1 DEF SessionOK
  <1>9. LiveFits(s, c, u, d, p, k, em, e, files)
    BY <1>6, <1>7 DEF Fits
  <1>10. ~EofDown(s)
    BY DEF EofDown
  <1>11. c.pc \in {"file", "name"} => c.module
    <2>1. c.pc \in {"file", "name"} => p \in Setup /\ Starts(c, u, d, p, k)
      BY <1>5, <1>9, InSetup
    <2> QED BY <2>1 DEF Starts
  <1>a. CASE Connect(s)
    <2>1. \E m \in Modes, mod \in BOOLEAN :
            /\ cli'[s] = [cli[s] EXCEPT !.pc = IF m = 1 THEN "handshake" ELSE "count",
                                        !.mode = m, !.module = mod]
            /\ c2s'[s] = Append(c2s[s], TheInt(m))
      BY <1>0, <1>a, ConnectMoves, Zenon
    <2>2. PICK m \in Modes, mod \in BOOLEAN :
            /\ c1 = [c EXCEPT !.pc = IF m = 1 THEN "handshake" ELSE "count",
                              !.mode = m, !.module = mod]
            /\ u1 = Append(u, TheInt(m))
      BY <1>2, <1>3, <2>1, Zenon
    <2>3. c.pc = "idle" /\ d1 = d /\ gone1 = gone /\ m \in Nat
      BY <1>a, <1>2, <1>3, ModesAssumption DEF Connect
    <2>4. Fits(s, [c EXCEPT !.pc = IF m = 1 THEN "handshake" ELSE "count",
                            !.mode = m, !.module = mod],
               Append(u, TheInt(m)), d, p, k, em, e, files, gone)
      BY <1>4, <1>5, <1>6, <1>7, <2>3, Connected, Zenon
    <2> QED BY <2>2, <2>3, <2>4, Zenon
  <1>b. CASE SendPublicKey(s)
    <2>1. c1 = [c EXCEPT !.pc = "spk"] /\ u1 = Append(u, TheClientKey(s))
      BY <1>0, <1>b, <1>2, <1>3, HandshakeMoves, Zenon
    <2>2. d1 = d /\ gone1 = gone /\ c.pc = "handshake"
      BY <1>b, <1>2, <1>3 DEF SendPublicKey
    <2> QED BY <1>4, <1>5, <1>6, <1>7, <2>1, <2>2, PublicKeySent, Zenon
  <1>c. CASE RecvServerKey(s)
    <2>1. /\ s2c[s] # <<>> /\ s2c'[s] = Tail(s2c[s])
          /\ cli'[s] = [cli[s] EXCEPT !.pc = "half1", !.spk = Head(s2c[s]).v]
      BY <1>0, <1>c, <1>10, HandshakeMoves, Zenon
    <2>2. d # <<>> /\ d1 = Tail(d) /\ c1 = [c EXCEPT !.pc = "half1", !.spk = Head(d).v]
      BY <1>2, <1>3, <2>1, Zenon
    <2>3. u1 = u /\ gone1 = gone /\ c.pc = "spk"
      BY <1>c, <1>2, <1>3 DEF RecvServerKey
    <2> QED BY <1>4, <1>5, <1>6, <1>7, <2>2, <2>3, ServerKeyRead, Zenon
  <1>d. CASE RecvHalf(s)
    <2>1. d # <<>> /\ u1 = u /\ gone1 = gone /\ c.pc \in {"half1", "half2"}
      <3>1. s2c[s] # <<>>
        BY <1>0, <1>d, <1>10, HandshakeMoves, Zenon
      <3> QED BY <1>d, <1>2, <1>3, <3>1 DEF RecvHalf
    <2>2. PICK v : v = Opened(s, Head(s2c[s]))
      OBVIOUS
    <2>3. /\ s2c'[s] = Tail(s2c[s])
          /\ cli[s].pc = "half1" =>
               cli'[s] = [cli[s] EXCEPT !.pc = "half2", !.half = v]
          /\ cli[s].pc # "half1" =>
               cli'[s] = [cli[s] EXCEPT !.pc = "count",
                                        !.key = IF v = cli[s].half THEN v ELSE Zero]
      <3>1. RecvHalf(s) /\ s2c[s] # <<>>
        BY <1>d, <1>2, <2>1
      <3> QED BY <1>0, <2>2, <3>1, HandshakeMoves, Zenon
    <2>4. /\ d1 = Tail(d)
          /\ c.pc = "half1" => c1 = [c EXCEPT !.pc = "half2", !.half = v]
          /\ c.pc # "half1" => c1 = [c EXCEPT !.pc = "count",
                                              !.key = IF v = c.half THEN v ELSE Zero]
      BY <1>2, <1>3, <2>3, Zenon
    <2>5. /\ Head(d) = Half(s, e) /\ c.spk = e.spk
          /\ c.pc = "half2" => c.half = e.key
          /\ em = 1 /\ p = "count"
          /\ e.key \in Nat
          /\ c.pc = "half1" =>
               Fits(s, [c EXCEPT !.pc = "half2", !.half = e.key], u, Tail(d), p, k,
                    em, e, files, gone)
          /\ c.pc = "half2" =>
               Fits(s, [c EXCEPT !.pc = "count", !.key = e.key], u, Tail(d), p, k,
                    em, e, files, gone)
      BY <1>4, <1>5, <1>6, <1>7, <2>1, HalfRead, ZenonT(60)
    <2>6. v = e.key
      BY <1>2, <2>2, <2>5 DEF Opened, Half
    <2>7. CASE c.pc = "half1"
      BY <2>1, <2>4, <2>5, <2>6, <2>7, Zenon
    <2>8. CASE c.pc = "half2"
      <3>1. (IF v = c.half THEN v ELSE Zero) = e.key
        BY <2>5, <2>6, <2>8
      <3>2. c1 = [c EXCEPT !.pc = "count", !.key = IF v = c.half THEN v ELSE Zero]
        BY <2>4, <2>8
      <3>3. c1 = [c EXCEPT !.pc = "count", !.key = e.key]
        BY <3>1, <3>2, Zenon
      <3> QED BY <2>1, <2>4, <2>5, <2>8, <3>3, Zenon
    <2> QED BY <2>1, <2>7, <2>8
  <1>e. CASE SendModules(s)
    <2>1. PICK q : q = IF c.pc = "count" THEN IF c.module THEN "file" ELSE "ready"
                       ELSE IF c.pc = "file" THEN "name" ELSE "ready"
      OBVIOUS
    <2>2. /\ cli'[s] = [cli[s] EXCEPT !.pc =
                         IF @ = "count" THEN IF cli[s].module THEN "file" ELSE "ready"
                         ELSE IF @ = "file" THEN "name" ELSE "ready"]
          /\ c2s'[s] = Append(c2s[s], NextUnit(s))
      BY <1>0, <1>e, UploadMoves, Zenon
    <2>3. c1 = [c EXCEPT !.pc = q]
      BY <1>2, <1>3, <2>1, <2>2, Zenon
    <2>4. d1 = d /\ gone1 = gone /\ c.pc \in {"count", "file", "name"}
      BY <1>e, <1>2, <1>3 DEF SendModules
    <2>5. NextUnit(s) = Unit(s, c, Written(c)) /\ NextUnit(s) \in UpUnit
      <3>1. cli[s].pc \in {"file", "name"} => cli[s].module
        BY <1>2, <1>11
      <3>2. cli[s].pc \in {"count", "file", "name"}
        BY <1>2, <2>4
      <3>3. NextUnit(s) = Unit(s, cli[s], Written(cli[s])) /\ NextUnit(s) \in UpUnit
        BY <1>0, <3>1, <3>2, WritesNext, Zenon
      <3> QED BY <1>2, <3>3, Zenon
    <2>6. u1 = Append(u, Unit(s, c, Written(c))) /\ Unit(s, c, Written(c)) \in UpUnit
      BY <1>2, <1>3, <2>2, <2>5, Zenon
    <2>7. Fits(s, [c EXCEPT !.pc = q], Append(u, Unit(s, c, Written(c))), d, p, k, em, e,
               files, gone)
      BY <1>4, <1>5, <1>6, <1>7, <2>1, <2>4, <2>6, ModulesSent, Zenon
    <2> QED BY <2>3, <2>4, <2>6, <2>7, Zenon
  <1>f. CASE Call(s)
    <2>1. d1 = d /\ gone1 = gone /\ c.pc = "ready"
      BY <1>f, <1>2, <1>3 DEF Call
    <2>2. CASE Sends(c.mode)
      <3>1. /\ cli'[s] = [cli[s] EXCEPT !.pc = "response", !.calls = @ + 1]
            /\ c2s'[s] = Append(c2s[s], NextUnit(s))
        <4>1. Sends(cli[s].mode)
          BY <1>2, <2>2, Zenon
        <4> QED BY <1>0, <1>f, <4>1, CallMoves, Zenon
      <3>2. c1 = [c EXCEPT !.pc = "response", !.calls = @ + 1] /\ u1 = Append(u, NextUnit(s))
        BY <1>2, <1>3, <3>1, Zenon
      <3>3. NextUnit(s) = Code(s, c1) /\ NextUnit(s) \in UpUnit
        <4>1. cli[s].pc = "ready"
          BY <1>2, <2>1, Zenon
        <4>2. cli[s].pc \notin {"file", "name"}
          BY <4>1
        <4>3. /\ NextUnit(s) = Code(s, [cli[s] EXCEPT !.pc = "response", !.calls = @ + 1])
              /\ NextUnit(s) \in UpUnit
          BY <1>0, <4>1, <4>2, WritesNext, Zenon
        <4> QED BY <1>3, <3>1, <4>3, Zenon
      <3>4. Code(s, c1) \in UpUnit
        BY <3>3, Zenon
      <3>5. Fits(s, c1, Append(u, Code(s, c1)), d, p, k, em, e, files, gone)
        BY <1>4, <1>5, <1>6, <1>7, <2>1, <2>2, <3>2, <3>4, CodeSent, Zenon
      <3> QED BY <2>1, <3>2, <3>3, <3>5, Zenon
    <2>3. CASE ~Sends(c.mode)
      <3>1. cli'[s] = [cli[s] EXCEPT !.pc = "timers"] /\ c2s'[s] = c2s[s]
        <4>1. ~Sends(cli[s].mode)
          BY <1>2, <2>3, Zenon
        <4> QED BY <1>0, <1>f, <4>1, CallMoves, Zenon
      <3>2. c1 = [c EXCEPT !.pc = "timers"] /\ u1 = u
        BY <1>2, <1>3, <3>1, Zenon
      <3> QED BY <1>4, <1>5, <1>6, <1>7, <2>1, <2>3, <3>2, UnknownCalled, Zenon
    <2> QED BY <2>2, <2>3
  <1>g. CASE RecvResponse(s)
    <2>1. PICK reply : reply = View(Head(s2c[s]), cli[s].key)
      OBVIOUS
    <2>2. /\ s2c[s] # <<>> /\ s2c'[s] = Tail(s2c[s])
          /\ cli'[s] = [cli[s] EXCEPT !.pc = "timers", !.got = Append(@, reply)]
      BY <1>0, <1>g, <1>10, <2>1, ResponseMoves, Zenon
    <2>3. /\ d # <<>> /\ d1 = Tail(d) /\ reply = View(Head(d), c.key)
          /\ c1 = [c EXCEPT !.pc = "timers", !.got = Append(@, reply)]
      BY <1>2, <1>3, <2>1, <2>2, Zenon
    <2>4. u1 = u /\ gone1 = gone /\ c.pc = "response"
      BY <1>g, <1>2, <1>3 DEF RecvResponse
    <2>5. reply \in Reply
      <3>1. ArrivedDown(s, {"pkt"})
        BY <1>10, <1>g DEF RecvResponse
      <3>2. Head(s2c[s]) \in Packet
        BY <3>1, HeadTypes DEF TypeOK
      <3> QED BY <2>1, <3>2 DEF View, Reply, Packet
    <2>6. Fits(s, [c EXCEPT !.pc = "timers", !.got = Append(@, reply)], u, Tail(d), p, k,
               em, e, files, gone)
      BY <1>4, <1>5, <1>6, <1>7, <2>3, <2>4, <2>5, ResponseRead, Zenon
    <2> QED BY <2>3, <2>4, <2>6, Zenon
  <1>h. CASE RecvTimers(s)
    <2>1. /\ cli'[s] = [cli[s] EXCEPT !.pc = IF Sends(cli[s].mode) THEN "ready"
                                             ELSE "closed"]
          /\ s2c[s] # <<>> /\ s2c'[s] = Tail(s2c[s])
      BY <1>0, <1>h, <1>10, TimersMoves, Zenon
    <2>2. /\ c1 = [c EXCEPT !.pc = IF Sends(c.mode) THEN "ready" ELSE "closed"]
          /\ d # <<>> /\ d1 = Tail(d)
      BY <1>2, <1>3, <2>1, Zenon
    <2>3. u1 = u /\ c.pc = "timers" /\ (Sends(c.mode) => gone1 = gone)
      BY <1>h, <1>2, <1>3 DEF RecvTimers
    <2>4. /\ Sends(c.mode)
          /\ Fits(s, [c EXCEPT !.pc = "ready"], u, Tail(d), p, k, em, e, files, gone)
      BY <1>4, <1>5, <1>6, <1>7, <2>2, <2>3, TimersRead, Zenon
    <2>5. c1 = [c EXCEPT !.pc = "ready"]
      BY <2>2, <2>4, Zenon
    <2> QED BY <2>2, <2>3, <2>4, <2>5, Zenon
  <1>i. CASE c2s'[s] = c2s[s] /\ (Leave(s) \/ CrashConnecting(s))
    <2>1. cli'[s] = [cli[s] EXCEPT !.pc = "closed"]
      BY <1>0, <1>i, LeaveMoves, Zenon
    <2>2. s \in fin'
      BY <1>i DEF Leave, CrashConnecting
    <2>3. c1 = [c EXCEPT !.pc = "closed"] /\ s \in gone1 /\ u1 = u
      BY <1>2, <1>3, <1>i, <2>1, <2>2, Zenon
    <2> QED BY <1>4, <1>5, <1>6, <1>7, <2>3, ClientLeft, Zenon
  <1>j. CASE Crash(s) /\ c2s'[s] # c2s[s]
    <2>1. /\ \/ cli[s].pc \in {"file", "name"}
             \/ cli[s].pc = "ready" /\ Sends(cli[s].mode)
          /\ SendUp(s, [NextUnit(s) EXCEPT !.cut = TRUE])
          /\ Leave(s)
      BY <1>j DEF Crash
    <2>2. PICK m : m = [NextUnit(s) EXCEPT !.cut = TRUE]
      OBVIOUS
    <2>3. cli'[s] = [cli[s] EXCEPT !.pc = "closed"]
      BY <1>0, <2>1, LeaveMoves, Zenon
    <2>4. s \in fin' /\ c2s'[s] = Append(c2s[s], m)
      BY <1>0, <2>1, <2>2 DEF Leave, SendUp, StreamsType
    <2>5. /\ c1 = [c EXCEPT !.pc = "closed"] /\ s \in gone1 /\ u1 = Append(u, m)
          /\ c.pc \in {"file", "name"} \/ (c.pc = "ready" /\ Sends(c.mode))
      BY <1>2, <1>3, <2>1, <2>3, <2>4, Zenon
    <2>6. NextUnit(s) \in Packet
      BY <1>0, <2>1, NextUnitType DEF StreamsType, ClientTypeOK
    <2>7. m \in UpUnit /\ CutUnit(m) /\ m.what = NextUnit(s).what
      BY <2>2, <2>6 DEF Packet, UpUnit, CutUnit
    <2>8. Unit(s, c, Written(c)).t = "pkt" /\ Unit(s, c, Written(c)).what = NextUnit(s).what
      <3>1. CASE c.pc \in {"file", "name"}
        <4>1. cli[s].pc \in {"file", "name"} => cli[s].module
          BY <1>2, <1>11, Zenon
        <4>2. cli[s].pc \in {"count", "file", "name"}
          BY <1>2, <3>1
        <4>3. NextUnit(s) = Unit(s, cli[s], Written(cli[s]))
          BY <1>0, <4>1, <4>2, WritesNext, Zenon
        <4>4. NextUnit(s) = Unit(s, c, Written(c))
          BY <1>2, <4>3, Zenon
        <4> QED BY <2>6, <4>4 DEF Packet
      <3>2. CASE c.pc = "ready"
        <4>1. Written(c) = CodeAt(c) /\ CodeAt(c) # 0 /\ CodeAt(c) # CountAt(c)
          BY <1>4, <3>2, Places DEF Written
        <4>2. Unit(s, c, Written(c)) = Code(s, c)
          BY <4>1 DEF Unit
        <4> QED BY <1>2, <3>2, <4>2 DEF NextUnit, Code, Text
      <3> QED BY <2>5, <3>1, <3>2
    <2>9. CutOf(m, Unit(s, c, Written(c)))
      BY <2>7, <2>8 DEF CutOf
    <2> QED BY <1>4, <1>5, <1>6, <1>7, <2>5, <2>7, <2>9, ClientCut, Zenon
  <1>k. ~Fail(s)
    BY DEF Fail
  <1>l. CASE Close(s)
    BY <1>i, <1>l DEF Close
  <1>m. CASE Kill(s)
    <2>1. CASE CrashConnecting(s)
      BY <1>i, <2>1 DEF CrashConnecting
    <2>2. CASE Crash(s)
      BY <1>i, <1>j, <2>2 DEF Crash
    <2> QED BY <1>m, <2>1, <2>2 DEF Kill
  <1> QED BY <1>a, <1>b, <1>c, <1>d, <1>e, <1>f, <1>g, <1>h, <1>k, <1>l, <1>m
          DEF ClientAct, Step, ClientStep

\* What every step of a client does to its record c.
Moved(c, c1) ==
  /\ c1.pc # "idle"
  /\ c1.calls >= c.calls
  /\ c1.pc = "closed" => c1.got = c.got /\ c1.calls = c.calls /\ c1.module = c.module
  /\ c1.key = c.key \/ (c.pc = "half2" /\ c1.pc = "count")
  /\ (c.pc = "idle" /\ c1.pc # "closed") \/ (c1.mode = c.mode /\ c1.module = c.module)
  /\ \/ c1.got = c.got
     \/ c.pc = "response" /\ c1.pc = "timers" /\ \E r : c1.got = Append(c.got, r)

LEMMA RecordMoves ==
  ASSUME StreamsType, NEW s \in Sessions, ClientAct(s)
  PROVE  Moved(cli[s], cli'[s])
  <1>1. PICK c, c1 : c = cli[s] /\ c1 = cli'[s]
    OBVIOUS
  <1>2. c \in ClientState
    BY <1>1 DEF StreamsType
  <1> SUFFICES Moved(c, c1)
    BY <1>1, Zenon
  <1>3. ASSUME NEW q, c1 = [c EXCEPT !.pc = q], q # "idle"
        PROVE  Moved(c, c1)
    BY <1>2, <1>3 DEF Moved, ClientState
  <1>a. CASE Connect(s)
    <2>1. \E m \in Modes, mod \in BOOLEAN :
            /\ cli'[s] = [cli[s] EXCEPT !.pc = IF m = 1 THEN "handshake" ELSE "count",
                                        !.mode = m, !.module = mod]
            /\ c2s'[s] = Append(c2s[s], TheInt(m))
      BY <1>a, ConnectMoves, Zenon
    <2>2. PICK m, mod, q : /\ c1 = [c EXCEPT !.pc = q, !.mode = m, !.module = mod]
                           /\ q = IF m = 1 THEN "handshake" ELSE "count"
      BY <1>1, <2>1, Zenon
    <2>3. q \notin {"idle", "closed"}
      BY <2>2
    <2>4. c.pc = "idle"
      BY <1>a, <1>1 DEF Connect
    <2> QED BY <1>2, <2>2, <2>3, <2>4 DEF Moved, ClientState
  <1>b. CASE SendPublicKey(s)
    <2>1. c1 = [c EXCEPT !.pc = "spk"]
      BY <1>b, <1>1, HandshakeMoves, Zenon
    <2> QED BY <1>3, <2>1
  <1>c. CASE RecvServerKey(s)
    <2>1. PICK k : c1 = [c EXCEPT !.pc = "half1", !.spk = k] \/ c1 = [c EXCEPT !.pc = "half1"]
      BY <1>c, <1>1, HandshakeMoves, Zenon
    <2>2. CASE c1 = [c EXCEPT !.pc = "half1"]
      BY <1>3, <2>2
    <2>3. CASE c1 = [c EXCEPT !.pc = "half1", !.spk = k]
      BY <1>2, <2>3 DEF Moved, ClientState
    <2> QED BY <2>1, <2>2, <2>3
  <1>d. CASE RecvHalf(s)
    <2>1. PICK k, h : \/ cli' = [cli EXCEPT ![s].pc = "half2", ![s].half = h]
                      \/ /\ cli[s].pc # "half1"
                         /\ cli' = [cli EXCEPT ![s].pc = "count", ![s].key = k]
      BY <1>d, Zenon DEF RecvHalf
    <2>2. cli[s].pc \in {"half1", "half2"}
      BY <1>d DEF RecvHalf
    <2>3. \/ c1 = [c EXCEPT !.pc = "half2", !.half = h]
          \/ c.pc = "half2" /\ c1 = [c EXCEPT !.pc = "count", !.key = k]
      BY <1>1, <2>1, <2>2 DEF StreamsType
    <2>4. CASE c1 = [c EXCEPT !.pc = "half2", !.half = h]
      BY <1>2, <2>4 DEF Moved, ClientState
    <2>5. CASE c.pc = "half2" /\ c1 = [c EXCEPT !.pc = "count", !.key = k]
      BY <1>2, <2>5 DEF Moved, ClientState
    <2> QED BY <2>3, <2>4, <2>5
  <1>e. CASE SendModules(s)
    <2>1. PICK q : /\ q = IF cli[s].pc = "count" THEN IF cli[s].module THEN "file" ELSE "ready"
                          ELSE IF cli[s].pc = "file" THEN "name" ELSE "ready"
                   /\ cli'[s] = [cli[s] EXCEPT !.pc = q]
      BY <1>e, UploadMoves, Zenon
    <2>2. q # "idle"
      BY <2>1
    <2> QED BY <1>1, <1>3, <2>1, <2>2
  <1>f. CASE Call(s)
    <2>1. \/ c1 = [c EXCEPT !.pc = "response", !.calls = @ + 1]
          \/ c1 = [c EXCEPT !.pc = "timers"]
      BY <1>f, <1>1, CallMoves, Zenon
    <2>2. CASE c1 = [c EXCEPT !.pc = "response", !.calls = @ + 1]
      BY <1>2, <2>2 DEF Moved, ClientState
    <2>3. CASE c1 = [c EXCEPT !.pc = "timers"]
      BY <1>3, <2>3
    <2> QED BY <2>1, <2>2, <2>3
  <1>g. CASE RecvResponse(s)
    <2>1. PICK r : c1 = [c EXCEPT !.pc = "timers", !.got = Append(@, r)]
      BY <1>g, <1>1, ResponseMoves, Zenon
    <2>2. c.pc = "response"
      BY <1>g, <1>1 DEF RecvResponse
    <2>3. PICK g : g = Append(c.got, r)
      OBVIOUS
    <2>4. /\ c1.pc = "timers" /\ c1.got = g /\ c1.calls = c.calls /\ c1.key = c.key
          /\ c1.mode = c.mode /\ c1.module = c.module
      BY <1>2, <2>1, <2>3 DEF ClientState
    <2> QED BY <1>2, <2>2, <2>3, <2>4 DEF Moved, ClientState
  <1>h. CASE RecvTimers(s)
    <2>1. PICK q : /\ q = IF Sends(cli[s].mode) THEN "ready" ELSE "closed"
                   /\ c1 = [c EXCEPT !.pc = q]
      BY <1>h, <1>1, TimersMoves, Zenon
    <2>2. q # "idle"
      BY <2>1
    <2> QED BY <1>3, <2>1, <2>2
  <1>i. CASE Leave(s) \/ CrashConnecting(s)
    <2>1. c1 = [c EXCEPT !.pc = "closed"]
      BY <1>i, <1>1, LeaveMoves, Zenon
    <2> QED BY <1>3, <2>1
  <1>j. CASE Close(s) \/ Fail(s) \/ Kill(s)
    BY <1>i, <1>j DEF Close, Fail, Kill, Crash
  <1> QED BY <1>a, <1>b, <1>c, <1>d, <1>e, <1>f, <1>g, <1>h, <1>j
          DEF ClientAct, Step, ClientStep

\* A client connects once, and ends when its socket is closed.
LEMMA Leaves ==
  ASSUME StreamsType, NEW s \in Sessions, ClientAct(s), s \in fin <=> cli[s].pc = "closed"
  PROVE  /\ s \in fin' <=> cli'[s].pc = "closed"
         /\ fin \subseteq fin'
         /\ cli[s].pc = "idle" => up \/ cli'[s].pc = "closed"
         /\ backlog' = backlog \/ (up /\ cli[s].pc = "idle" /\ backlog' = Append(backlog, s))
  <1>1. PICK c, c1 : c = cli[s] /\ c1 = cli'[s]
    OBVIOUS
  <1>2. c \in ClientState
    BY <1>1 DEF StreamsType
  <1>k. cli[s].pc = "idle" => up \/ cli'[s].pc = "closed"
    <2>1. CASE Connect(s)
      BY <2>1 DEF Connect
    <2>2. CASE Leave(s) \/ CrashConnecting(s)
      <3>1. c1 = [c EXCEPT !.pc = "closed"]
        BY <2>2, <1>1, LeaveMoves, Zenon
      <3> QED BY <1>1, <1>2, <3>1 DEF ClientState
    <2> QED BY <2>1, <2>2 DEF ClientAct, Step, ClientStep, SendPublicKey, RecvServerKey,
                 RecvHalf, SendModules, Call, RecvResponse, RecvTimers, Close, Fail, Kill,
                 Crash
  <1>l. backlog' = backlog \/ (up /\ cli[s].pc = "idle" /\ backlog' = Append(backlog, s))
    <2>1. CASE Connect(s) \/ CrashConnecting(s)
      BY <2>1, Zenon DEF Connect, CrashConnecting
    <2>2. CASE RecvHalf(s)
      BY <2>2 DEF RecvHalf
    <2>3. CASE SendPublicKey(s) \/ RecvServerKey(s) \/ SendModules(s) \/ Call(s)
      BY <2>3 DEF SendPublicKey, RecvServerKey, SendModules, Call
    <2>4. CASE RecvResponse(s) \/ RecvTimers(s) \/ Close(s) \/ Fail(s) \/ Crash(s)
      BY <2>4 DEF RecvResponse, RecvTimers, Close, Fail, Crash, Leave
    <2> QED BY <2>1, <2>2, <2>3, <2>4 DEF ClientAct, Step, ClientStep, Kill
  <1> SUFFICES (s \in fin' <=> cli'[s].pc = "closed") /\ fin \subseteq fin'
    BY <1>k, <1>l
  <1>3. ASSUME s \notin fin, fin' = fin, c1.pc # "closed"
        PROVE  (s \in fin' <=> cli'[s].pc = "closed") /\ fin \subseteq fin'
    BY <1>1, <1>3
  <1>4. ASSUME fin' = fin \union {s}, c1.pc = "closed"
        PROVE  (s \in fin' <=> cli'[s].pc = "closed") /\ fin \subseteq fin'
    BY <1>1, <1>4
  <1>a. CASE Connect(s)
    <2>1. PICK q, m, mod : cli' = [cli EXCEPT ![s].pc = q, ![s].mode = m, ![s].module = mod]
                             /\ q = IF m = 1 THEN "handshake" ELSE "count"
      BY <1>a, Zenon DEF Connect
    <2>2. q # "closed" /\ c1.pc = q
      BY <1>1, <2>1 DEF StreamsType, ClientState
    <2>3. /\ fin' = fin /\ cli[s].pc = "idle" /\ s \notin fin
          /\ up /\ backlog' = Append(backlog, s)
      BY <1>a DEF Connect
    <2> QED BY <1>3, <2>2, <2>3
  <1>b. CASE SendPublicKey(s) \/ RecvServerKey(s)
    <2>1. c1.pc # "closed" /\ fin' = fin /\ backlog' = backlog /\ s \notin fin
      BY <1>b, <1>1 DEF SendPublicKey, RecvServerKey, StreamsType, ClientState
    <2> QED BY <1>3, <2>1
  <1>d. CASE RecvHalf(s)
    <2>1. PICK k, h : \/ cli' = [cli EXCEPT ![s].pc = "half2", ![s].half = h]
                      \/ cli' = [cli EXCEPT ![s].pc = "count", ![s].key = k]
      BY <1>d, Zenon DEF RecvHalf
    <2>2. c1.pc # "closed"
      BY <1>1, <2>1 DEF StreamsType, ClientState
    <2>3. fin' = fin /\ backlog' = backlog /\ s \notin fin
      BY <1>d DEF RecvHalf
    <2> QED BY <1>3, <2>2, <2>3
  <1>e. CASE SendModules(s)
    <2>1. PICK q : /\ q = IF cli[s].pc = "count" THEN IF cli[s].module THEN "file" ELSE "ready"
                          ELSE IF cli[s].pc = "file" THEN "name" ELSE "ready"
                   /\ cli'[s] = [cli[s] EXCEPT !.pc = q]
      BY <1>e, UploadMoves, Zenon
    <2>2. c1.pc # "closed"
      BY <1>1, <1>2, <2>1 DEF ClientState
    <2>3. fin' = fin /\ backlog' = backlog /\ s \notin fin
      BY <1>e DEF SendModules
    <2> QED BY <1>3, <2>2, <2>3
  <1>f. CASE Call(s)
    <2>1. \/ c1 = [c EXCEPT !.pc = "response", !.calls = @ + 1]
          \/ c1 = [c EXCEPT !.pc = "timers"]
      BY <1>f, <1>1, CallMoves, Zenon
    <2>2. c1.pc # "closed"
      BY <1>2, <2>1 DEF ClientState
    <2>3. fin' = fin /\ backlog' = backlog /\ s \notin fin
      BY <1>f DEF Call
    <2> QED BY <1>3, <2>2, <2>3
  <1>g. CASE RecvResponse(s)
    <2>1. PICK r : c1 = [c EXCEPT !.pc = "timers", !.got = Append(@, r)]
      BY <1>g, <1>1, ResponseMoves, Zenon
    <2>2. c1.pc # "closed"
      BY <1>2, <2>1 DEF ClientState
    <2>3. fin' = fin /\ backlog' = backlog /\ s \notin fin
      BY <1>g DEF RecvResponse
    <2> QED BY <1>3, <2>2, <2>3
  <1>h. CASE RecvTimers(s)
    <2>1. c1 = [c EXCEPT !.pc = IF Sends(c.mode) THEN "ready" ELSE "closed"]
      BY <1>h, <1>1, TimersMoves, Zenon
    <2>2. /\ Sends(c.mode) => c1.pc # "closed" /\ fin' = fin
          /\ ~Sends(c.mode) => c1.pc = "closed" /\ fin' = fin \union {s}
      <3>1. fin' = IF Sends(c.mode) THEN fin ELSE fin \union {s}
        BY <1>h, <1>1 DEF RecvTimers
      <3>2. PICK q : q = IF Sends(c.mode) THEN "ready" ELSE "closed"
        OBVIOUS
      <3>3. c1.pc = q
        BY <1>2, <2>1, <3>2 DEF ClientState
      <3> QED BY <3>1, <3>2, <3>3
    <2>3. backlog' = backlog /\ s \notin fin
      BY <1>h DEF RecvTimers
    <2> QED BY <1>3, <1>4, <2>2, <2>3
  <1>i. CASE Leave(s) \/ CrashConnecting(s)
    <2>1. c1 = [c EXCEPT !.pc = "closed"]
      BY <1>i, <1>1, LeaveMoves, Zenon
    <2>2. c1.pc = "closed"
      BY <1>2, <2>1 DEF ClientState
    <2>3. fin' = fin \union {s}
      BY <1>i DEF Leave, CrashConnecting
    <2>4. backlog' = backlog \/ (up /\ cli[s].pc = "idle" /\ backlog' = Append(backlog, s))
      BY <1>i DEF Leave, CrashConnecting
    <2> QED BY <1>4, <2>2, <2>3, <2>4
  <1>j. CASE Close(s) \/ Fail(s) \/ Kill(s)
    BY <1>i, <1>j DEF Close, Fail, Kill, Crash
  <1> QED BY <1>a, <1>b, <1>d, <1>e, <1>f, <1>g, <1>h, <1>j
          DEF ClientAct, Step, ClientStep

\* A client that reads the end of the server's stream takes it for an empty reply.
LEMMA EndRead ==
  ASSUME StreamsType, NEW s \in Sessions, ClientAct(s), s2c[s] = <<>>
  PROVE  /\ s2c'[s] = <<>>
         /\ cli'[s].got = cli[s].got \/ cli'[s].got = Append(cli[s].got, Lost)
  <1>1. s2c'[s] = <<>>
    <2>1. ~ArrivedDown(s, {"spk"}) /\ ~ArrivedDown(s, {"box"}) /\ ~ArrivedDown(s, {"pkt"})
      BY DEF ArrivedDown
    <2>2. CASE Connect(s) \/ CrashConnecting(s)
      BY <2>2, Zenon DEF Connect, CrashConnecting
    <2>3. CASE RecvHalf(s)
      BY <2>1, <2>3 DEF RecvHalf
    <2>4. CASE SendPublicKey(s) \/ RecvServerKey(s) \/ SendModules(s) \/ Call(s)
      BY <2>1, <2>4 DEF SendPublicKey, RecvServerKey, SendModules, Call
    <2>5. CASE RecvResponse(s) \/ RecvTimers(s) \/ Close(s) \/ Fail(s) \/ Crash(s)
      BY <2>1, <2>5 DEF RecvResponse, RecvTimers, Close, Fail, Crash, Leave
    <2> QED BY <2>2, <2>3, <2>4, <2>5 DEF ClientAct, Step, ClientStep, Kill
  <1>2. PICK c, c1 : c = cli[s] /\ c1 = cli'[s]
    OBVIOUS
  <1>3. c \in ClientState
    BY <1>2 DEF StreamsType
  <1>4. CASE RecvResponse(s)
    <2>1. cli'[s] = [cli[s] EXCEPT !.pc = "timers", !.got = Append(@, Lost)]
      BY <1>4, ResponseMoves, Zenon
    <2>2. c1 = [c EXCEPT !.pc = "timers", !.got = Append(@, Lost)]
      BY <1>2, <2>1, Zenon
    <2>3. PICK r : r = Lost
      OBVIOUS
    <2>4. c1.got = Append(c.got, r)
      BY <1>3, <2>2, <2>3 DEF ClientState
    <2> QED BY <1>1, <1>2, <2>3, <2>4, Zenon
  <1>5. CASE ~RecvResponse(s)
    <2>1. c1.got = c.got \/ (c.pc = "response" /\ c1.pc = "timers")
      <3>1. Moved(cli[s], cli'[s])
        BY RecordMoves
      <3> QED BY <1>2, <3>1 DEF Moved
    <2>2. c.pc = "response" => c1.pc = "closed"
      <3>1. c.pc = "response" => Leave(s)
        BY <1>2, <1>5 DEF ClientAct, Step, ClientStep, Connect, SendPublicKey, RecvServerKey,
           RecvHalf, SendModules, Call, RecvTimers, Close, Fail, Kill, Crash, CrashConnecting
      <3>2. Leave(s) => c1 = [c EXCEPT !.pc = "closed"]
        BY <1>2, LeaveMoves, Zenon
      <3> QED BY <1>3, <3>1, <3>2 DEF ClientState
    <2> QED BY <1>1, <1>2, <2>1, <2>2
  <1> QED BY <1>4, <1>5

\* What the client's steps leave to the server, and what its own end has become.
Frame(s) ==
  /\ StreamsType /\ StreamsType' /\ UNCHANGED server /\ up' = up /\ s \notin fin
  /\ \A r \in Sessions : Done(r)' = Done(r) /\ Srv(r)' = Srv(r)
  /\ Current' = Current
  /\ OnlyOf(s) /\ Moved(cli[s], cli'[s])
  /\ s \in fin' <=> cli'[s].pc = "closed"
  /\ fin \subseteq fin'
  /\ cli[s].pc = "idle" => up \/ cli'[s].pc = "closed"
  /\ backlog' = backlog \/ (up /\ cli[s].pc = "idle" /\ backlog' = Append(backlog, s))

LEMMA Framed ==
  ASSUME TypeOK, TypeOK', Ended, NEW s \in Sessions, ClientAct(s)
  PROVE  Frame(s)
  <1>1. StreamsType /\ StreamsType'
    BY Streams DEF StreamsType, TypeOK, WireTypeOK, ClientTypeOK
  <1>2. up' = up /\ UNCHANGED server /\ cli[s].pc # "closed" /\ OnlyOf(s)
    BY ClientFrame
  <1>3. s \notin fin /\ (s \in fin <=> cli[s].pc = "closed")
    BY <1>2 DEF Ended
  <1>4. Moved(cli[s], cli'[s])
    BY <1>1, RecordMoves
  <1>5. /\ s \in fin' <=> cli'[s].pc = "closed"
        /\ fin \subseteq fin'
        /\ cli[s].pc = "idle" => up \/ cli'[s].pc = "closed"
        /\ backlog' = backlog \/ (up /\ cli[s].pc = "idle" /\ backlog' = Append(backlog, s))
    BY <1>1, <1>3, Leaves, Zenon
  <1>6. /\ \A r \in Sessions : Done(r)' = Done(r) /\ Srv(r)' = Srv(r)
        /\ Current' = Current
    BY <1>2 DEF server, host, sgx, Srv, Done, Current
  <1> QED BY <1>1, <1>2, <1>3, <1>4, <1>5, <1>6, Zenon DEF Frame

LEMMA ClientSessions ==
  ASSUME TypeOK, TypeOK', Protocol, NEW s \in Sessions, ClientAct(s), up
  PROVE  \A r \in Sessions : SessionOK(r)'
  <1>1. Frame(s)
    BY Framed DEF Protocol
  <1>2. SessionOK(s)'
    <2>1. SessionOK(s) /\ (s \in fin => cli[s].pc = "closed")
      BY DEF Protocol, Ended
    <2> QED BY <2>1, ClientSession
  <1>3. ASSUME NEW r \in Sessions \ {s}
        PROVE  SessionOK(r)'
    <2>1. SessionOK(r)
      BY DEF Protocol
    <2>2. /\ cli'[r] = cli[r] /\ c2s'[r] = c2s[r] /\ s2c'[r] = s2c[r]
          /\ r \in fin' <=> r \in fin
      BY <1>1 DEF Frame, OnlyOf
    <2>3. Done(r)' = Done(r) /\ Srv(r)' = Srv(r)
      BY <1>1 DEF Frame
    <2>4. UNCHANGED <<encryption_mode, Current, disk>>
      BY <1>1 DEF Frame, server, host
    <2> QED BY <2>1, <2>2, <2>3, <2>4, Unmoved
  <1> QED BY <1>2, <1>3

LEMMA ClientExcused ==
  ASSUME TypeOK, NEW s \in Sessions, Frame(s), ~up, Excused
  PROVE  Excused'
  <1>1. cur' = cur /\ cur \in Sessions /\ fin \subseteq fin' /\ ran' = ran
    BY DEF Frame, server, host, TypeOK, ServerTypeOK
  <1>2. CASE cur \in fin
    BY <1>1, <1>2 DEF Excused
  <1>3. CASE cur # s
    <2>1. cli'[cur] = cli[cur] /\ (cur \in fin' <=> cur \in fin)
      BY <1>1, <1>3 DEF Frame, OnlyOf
    <2> QED BY <1>1, <2>1 DEF Excused, Unfinished
  <1>4. CASE cur = s
    <2>1. cli'[cur].mode = cli[cur].mode \/ cur \in fin'
      BY <1>4 DEF Frame, Moved
    <2>2. cli'[cur].calls >= cli[cur].calls
      BY <1>4 DEF Frame, Moved
    <2>3. PICK n : n = Cardinality({i \in 1..Len(ran) : ran[i].s = cur})
      OBVIOUS
    <2>4. n \in Nat
      BY <2>3, DoneType DEF Done
    <2>5. cli[cur].calls \in Nat /\ cli'[cur].calls \in Nat
      BY <1>4 DEF Frame, StreamsType, ClientState
    <2>6. cli[cur].calls > n => cli'[cur].calls > n
      BY <2>2, <2>4, <2>5
    <2>7. Unfinished(cur) => Unfinished(cur)'
      BY <1>1, <2>3, <2>6 DEF Unfinished
    <2> QED BY <1>1, <2>1, <2>7 DEF Excused
  <1> QED BY <1>2, <1>3, <1>4

LEMMA ClientQueue ==
  ASSUME TypeOK, NEW s \in Sessions, Frame(s), Queue, up => SessionOK(cur)
  PROVE  Queue'
  <1>1. backlog \in Seq(Sessions) /\ cur \in Sessions /\ cur' = cur /\ pc' = pc
    BY DEF TypeOK, WireTypeOK, ServerTypeOK, Frame, server, host
  <1>2. \A r \in Sessions : cli[r].pc # "idle" => cli'[r].pc # "idle"
    BY DEF Frame, OnlyOf, Moved
  <1>3. \A i \in 1..Len(backlog) : backlog[i] \in Sessions
    BY <1>1
  <1>4. CASE backlog' = backlog
    BY <1>1, <1>2, <1>3, <1>4 DEF Queue
  <1>5. CASE up /\ cli[s].pc = "idle" /\ backlog' = Append(backlog, s)
    <2>1. cli'[s].pc # "idle"
      BY DEF Frame, Moved
    <2>2. \A i \in 1..Len(backlog) : backlog[i] # s
      BY <1>5 DEF Queue
    <2>3. pc # "accept" => s # cur
      <3>1. SUFFICES ASSUME pc # "accept", s = cur PROVE FALSE
        OBVIOUS
      <3>2. cur \notin fin /\ cli[cur].pc = "idle" /\ SessionOK(cur)
        BY <1>5, <3>1 DEF Frame
      <3>3. Srv(cur) = "waits"
        BY <3>2 DEF SessionOK, Fits, LiveFits
      <3>4. Srv(cur) = pc /\ pc # "waits"
        BY <3>1 DEF Srv, TypeOK, ServerTypeOK, ServerPc
      <3> QED BY <3>3, <3>4
    <2>4. /\ Len(backlog') = Len(backlog) + 1 /\ Len(backlog) \in Nat
          /\ \A i \in 1..Len(backlog) : backlog'[i] = backlog[i]
          /\ backlog'[Len(backlog) + 1] = s
      BY <1>1, <1>5
    <2>5. ASSUME NEW i \in 1..Len(backlog')
          PROVE  /\ cli'[backlog'[i]].pc # "idle"
                 /\ pc # "accept" => backlog'[i] # cur
      BY <1>2, <1>3, <2>1, <2>3, <2>4 DEF Queue
    <2>6. ASSUME NEW i \in 1..Len(backlog'), NEW j \in 1..Len(backlog'),
                 backlog'[i] = backlog'[j]
          PROVE  i = j
      BY <2>2, <2>4, <2>6 DEF Queue
    <2> QED BY <1>1, <2>5, <2>6 DEF Queue
  <1> QED BY <1>4, <1>5 DEF Frame

\* A client's key changes when it has read both halves of the one of its enclave.
LEMMA ClientKeys ==
  ASSUME TypeOK, NEW s \in Sessions, Frame(s), Keys, up, SessionOK(s), SessionOK(s)'
  PROVE  Keys'
  <1>1. /\ up' = up /\ fresh' = fresh /\ encryption_mode' = encryption_mode /\ pc' = pc
        /\ cur' = cur /\ Current' = Current
    BY DEF Frame, server, host, sgx
  <1>2. \A r \in Sessions \ {s} : cli'[r].key = cli[r].key
    BY DEF Frame, OnlyOf
  <1>3. CASE cli'[s].key = cli[s].key
    <2>1. \A r \in Sessions : cli'[r].key = cli[r].key
      BY <1>2, <1>3
    <2> QED BY <1>1, <2>1 DEF Keys
  <1>4. CASE cli'[s].key # cli[s].key
    <2>1. cli[s].pc = "half2" /\ cli'[s].pc = "count" /\ s \notin fin /\ s \notin fin'
      BY <1>4 DEF Frame, Moved
    <2>2. PICK c, u, d, p, k, e : /\ LiveFits(s, c, u, d, p, k, encryption_mode, e, disk)
                                  /\ c = cli[s] /\ p = Srv(s) /\ e = Current
      BY <2>1 DEF SessionOK, Fits
    <2>3. PICK c1, u1, d1, k1 : /\ LiveFits(s, c1, u1, d1, p, k1, encryption_mode, e, disk)
                                /\ c1 = cli'[s]
      <3>1. LiveFits(s, cli'[s], c2s'[s], s2c'[s], Srv(s)', Done(s)', encryption_mode',
                     Current', disk')
        BY <2>1 DEF SessionOK, Fits
      <3>2. Srv(s)' = p /\ disk' = disk
        BY <2>2 DEF Frame, server
      <3> QED BY <1>1, <2>2, <3>1, <3>2
    <2>4. c.pc = "half2" /\ c1.pc = "count"
      BY <2>1, <2>2, <2>3
    <2>5. p \in Place
      BY <2>2, SrvPlace
    <2>6. p \in Setup /\ c.mode = 1
      <3>1. LiveFits(s, c, u, d, p, k, encryption_mode, e, disk)
        BY <2>2
      <3>2. p \in Setup
        BY <2>4, <2>5, <3>1, InSetup
      <3>3. c.mode = 1
        BY <2>4, <3>1 DEF LiveFits
      <3> QED BY <3>2, <3>3
    <2>7. p \notin Early \union {"key"}
      <3>1. Shakes(s, c, d, p, e)
        BY <2>2, <2>6 DEF LiveFits
      <3> QED BY <2>4, <3>1 DEF Shakes
    <2>8. p \in {"count", "module"}
      BY <2>6, <2>7 DEF Setup, Early
    <2>9. s = cur /\ pc = p /\ encryption_mode = 1
      <3>1. encryption_mode = c.mode
        BY <2>2, <2>7 DEF LiveFits
      <3>2. p # "waits"
        BY <2>8
      <3> QED BY <2>2, <2>6, <3>1, <3>2 DEF Srv
    <2>10. c1.key = Current.key
      <3>1. c1.mode = 1
        <4>1. c1.mode = c.mode
          BY <2>1, <2>2, <2>3 DEF Frame, Moved
        <4> QED BY <2>6, <4>1
      <3>2. Shakes(s, c1, d1, p, e)
        BY <2>3, <3>1 DEF LiveFits
      <3> QED BY <2>2, <2>4, <2>8, <3>2 DEF Shakes
    <2>11. pc \notin {"accept", "mode", "key"}
      BY <2>8, <2>9
    <2>12. Current.key <= fresh /\ \A r \in Sessions \ {cur} : cli[r].key # Current.key
      BY <2>9, <2>11 DEF Keys
    <2>13. \A r \in Sessions : cli'[r].key <= fresh
      BY <1>2, <2>3, <2>10, <2>12 DEF Keys
    <2> QED BY <1>1, <1>2, <2>9, <2>12, <2>13 DEF Keys
  <1> QED BY <1>3, <1>4

LEMMA ClientBereft ==
  ASSUME TypeOK, TypeOK', NEW s \in Sessions, ClientAct(s), Frame(s), ~up,
         \A r \in Sessions : Bereft(r)
  PROVE  \A r \in Sessions : Bereft(r)'
  <1>1. ASSUME NEW r \in Sessions \ {s} PROVE Bereft(r)'
    <2>1. /\ cli'[r] = cli[r] /\ s2c'[r] = s2c[r] /\ (r \in fin' <=> r \in fin)
      BY DEF Frame, OnlyOf
    <2> QED BY <2>1 DEF Bereft, Own
  <1>2. ASSUME s \notin fin' PROVE Bereft(s)'
    <2>1. /\ s2c[s] = <<>>
          /\ \A n \in 1..Len(cli[s].got) : cli[s].got[n] \in {Lost} \union Own(s, cli[s], n)
      BY DEF Frame, Bereft
    <2>2. /\ s2c'[s] = <<>>
          /\ cli'[s].got = cli[s].got \/ cli'[s].got = Append(cli[s].got, Lost)
      BY <2>1, EndRead DEF Frame
    <2>3. cli'[s].module = cli[s].module
      BY <1>2 DEF Frame, Moved
    <2>4. PICK g, g1 : g = cli[s].got /\ g1 = cli'[s].got
      OBVIOUS
    <2>5. g \in Seq(Reply) /\ (g1 = g \/ g1 = Append(g, Lost))
      BY <2>2, <2>4 DEF Frame, StreamsType, ClientState
    <2>6. /\ Len(g) \in Nat
          /\ g1 = g \/ /\ Len(g1) = Len(g) + 1 /\ g1[Len(g) + 1] = Lost
                       /\ \A n \in 1..Len(g) : g1[n] = g[n]
      BY <2>5
    <2>7. \A n : Own(s, cli'[s], n) = Own(s, cli[s], n)
      BY <2>3 DEF Own
    <2>8. ASSUME NEW n \in 1..Len(g1) PROVE g1[n] \in {Lost} \union Own(s, cli'[s], n)
      <3>1. CASE n \in 1..Len(g)
        <4>1. g[n] \in {Lost} \union Own(s, cli[s], n)
          BY <2>1, <2>4, <3>1
        <4>2. g1[n] = g[n]
          BY <2>6, <3>1
        <4> QED BY <2>7, <4>1, <4>2
      <3>2. CASE n \notin 1..Len(g)
        <4>1. g1[n] = Lost
          BY <2>6, <3>2
        <4> QED BY <4>1
      <3> QED BY <3>1, <3>2
    <2> QED BY <2>2, <2>4, <2>8 DEF Bereft
  <1>3. s \in fin' => Bereft(s)'
    BY DEF Bereft
  <1> QED BY <1>1, <1>2, <1>3

\* What a client that is there has been returned, up to what its call waits for.
LEMMA LiveAnswered ==
  ASSUME NEW r \in Sessions, SessionOK(r), r \notin fin
  PROVE  Answered(r)
  <1>1. GotFits(r, cli[r], Done(r))
    BY DEF SessionOK, Fits, LiveFits
  <1> QED BY <1>1 DEF GotFits, Answered, Failed

LEMMA ClientAnswered ==
  ASSUME TypeOK, NEW s \in Sessions, Frame(s), \A r \in Sessions : Answered(r),
         up => SessionOK(s)', ~up => Bereft(s)'
  PROVE  \A r \in Sessions : Answered(r)'
  <1>1. up' = up
    BY DEF Frame
  <1>2. ASSUME NEW r \in Sessions \ {s} PROVE Answered(r)'
    <2>1. cli'[r] = cli[r]
      BY DEF Frame, OnlyOf
    <2> QED BY <1>1, <2>1 DEF Answered, Own
  <1>3. CASE s \in fin'
    <2>1. /\ cli'[s].pc = "closed"
          /\ cli'[s].got = cli[s].got /\ cli'[s].calls = cli[s].calls
          /\ cli'[s].module = cli[s].module
      BY <1>3 DEF Frame, Moved
    <2>2. \A n : Own(s, cli'[s], n) = Own(s, cli[s], n)
      BY <2>1 DEF Own
    <2>3. Answered(s)
      OBVIOUS
    <2>4. Answered(s)'
      BY <1>1, <2>1, <2>2, <2>3 DEF Answered
    <2> QED BY <1>2, <2>4
  <1>4. CASE s \notin fin' /\ up
    <2>1. GotFits(s, cli'[s], Done(s)')
      BY <1>4 DEF SessionOK, Fits, LiveFits
    <2>2. Answered(s)'
      BY <2>1 DEF GotFits, Answered, Failed
    <2> QED BY <1>2, <2>2
  <1>5. CASE s \notin fin' /\ ~up
    <2>1. Answered(s)'
      BY <1>1, <1>5 DEF Bereft, Answered
    <2> QED BY <1>2, <2>1
  <1> QED BY <1>3, <1>4, <1>5

LEMMA ClientKeeps ==
  ASSUME TypeOK, TypeOK', Protocol, NEW s \in Sessions, ClientAct(s)
  PROVE  Protocol'
  <1>1. Frame(s)
    BY Framed DEF Protocol
  <1>2. up' = up /\ pc' = pc /\ cur \in Sessions
    BY <1>1 DEF Frame, server, host, TypeOK, ServerTypeOK
  <1>3. up => \A r \in Sessions : SessionOK(r) /\ SessionOK(r)'
    BY ClientSessions DEF Protocol
  <1>4. ~up => \A r \in Sessions : Bereft(r)'
    BY <1>1, ClientBereft DEF Protocol
  <1>5. ~up' => Excused'
    BY <1>1, <1>2, ClientExcused DEF Protocol
  <1>6. Queue'
    BY <1>1, <1>2, <1>3, ClientQueue DEF Protocol
  <1>7. Ended'
    <2>1. ASSUME NEW r \in Sessions \ {s} PROVE r \in fin' <=> cli'[r].pc = "closed"
      BY <1>1 DEF Frame, OnlyOf, Protocol, Ended
    <2>2. s \in fin' <=> cli'[s].pc = "closed"
      BY <1>1 DEF Frame
    <2> QED BY <2>1, <2>2 DEF Ended
  <1>8. Keys'
    <2>1. CASE up
      BY <1>1, <1>3, <2>1, ClientKeys DEF Protocol
    <2>2. CASE ~up
      BY <1>2, <2>2 DEF Keys
    <2> QED BY <2>1, <2>2
  <1>9. \A r \in Sessions : Answered(r)'
    BY <1>1, <1>3, <1>4, ClientAnswered DEF Protocol
  <1> QED BY <1>2, <1>3, <1>4, <1>5, <1>6, <1>7, <1>8, <1>9 DEF Protocol

-----------------------------------------------------------------------------
(* A step of the server.                                                   *)

\* A step in which the server stays up moves only the session it serves.
Serves ==
  /\ pc # "accept" /\ pc' # "dead" /\ up /\ up'
  /\ cli' = cli /\ fin' = fin /\ backlog' = backlog /\ cur' = cur
  /\ \A r \in Sessions \ {cur} :
       c2s'[r] = c2s[r] /\ s2c'[r] = s2c[r] /\ Done(r)' = Done(r)

LEMMA ServerKept ==
  ASSUME TypeOK, Protocol, Serves, SessionOK(cur)', Keys'
  PROVE  Protocol'
  <1>1. cur \in Sessions
    BY DEF TypeOK, ServerTypeOK
  <1>2. ASSUME NEW r \in Sessions PROVE SessionOK(r)'
    <2>1. CASE r = cur
      BY <2>1 DEF Serves
    <2>2. CASE r # cur
      <3>1. SessionOK(r)
        BY DEF Protocol, Serves
      <3>2. Srv(r) = "waits" /\ Srv(r)' = Srv(r)
        BY <2>2 DEF Srv, Serves
      <3>3. /\ cli'[r] = cli[r] /\ c2s'[r] = c2s[r] /\ s2c'[r] = s2c[r]
            /\ Done(r)' = Done(r) /\ (r \in fin' <=> r \in fin)
        BY <2>2 DEF Serves
      <3> QED BY <3>1, <3>2, <3>3, Unmoved
    <2> QED BY <2>1, <2>2
  <1>3. Queue'
    BY DEF Protocol, Serves, Queue
  <1>4. Ended'
    BY DEF Protocol, Serves, Ended
  <1>5. ASSUME NEW r \in Sessions PROVE Answered(r)'
    <2>1. Answered(r) /\ cli' = cli /\ up' = up
      BY DEF Protocol, Serves
    <2> QED BY <2>1 DEF Answered, Own
  <1> QED BY <1>2, <1>3, <1>4, <1>5 DEF Protocol, Serves

\* A client that waits to be served, or for its result, has been answered every call
\* it has returned from.
LEMMA Bereaved ==
  ASSUME NEW s \in Sessions, NEW c \in ClientState, NEW u, NEW d, NEW p, NEW k \in Nat,
         NEW em, NEW e, NEW files, LiveFits(s, c, u, d, p, k, em, e, files),
         p \in Early \/ p = "exec"
  PROVE  d = <<>> /\ \A n \in 1..Len(c.got) : c.got[n] \in Own(s, c, n)
  <1>1. CASE p \in Early
    <2>1. Starts(c, u, d, p, k)
      BY <1>1 DEF LiveFits, Early, Setup
    <2>2. d = <<>>
      <3>1. c.mode = 1 => Shakes(s, c, d, p, e)
        BY DEF LiveFits
      <3> QED BY <1>1, <2>1, <3>1 DEF Starts, Shakes
    <2>3. c.pc = "timers" => ~Failed(c, k)
      <3>1. k = 0 /\ (c.pc = "timers" => c.calls = 0)
        BY <2>1 DEF Starts
      <3> QED BY <3>1 DEF Failed
    <2>4. GotFits(s, c, k)
      BY DEF LiveFits
    <2> QED BY <2>2, <2>3, <2>4 DEF GotFits
  <1>2. CASE p = "exec"
    <2>1. AtExec(s, c, u, d, k, em, e, files)
      BY <1>2, ExecReached
    <2>2. c.pc = "response" /\ d = <<>> /\ GotFits(s, c, k)
      BY <2>1 DEF AtExec
    <2> QED BY <2>2 DEF GotFits
  <1> QED BY <1>1, <1>2

LEMMA Died ==
  ASSUME TypeOK, Protocol, Die, cli' = cli, up, Excused, pc # "accept",
         cur \in fin \/ pc \in Early \/ pc = "exec"
  PROVE  Protocol'
  <1>1. /\ cur' = cur /\ fin' = fin /\ backlog' = backlog /\ s2c' = s2c /\ ran' = ran
        /\ ~up' /\ pc' = "dead"
    BY DEF Die
  <1>2. ASSUME NEW r \in Sessions PROVE Bereft(r)'
    <2>1. CASE r \in fin
      BY <1>1, <2>1 DEF Bereft
    <2>2. CASE r \notin fin
      <3>1. PICK c, u, d, p, k, em, e, files :
              /\ LiveFits(r, c, u, d, p, k, em, e, files)
              /\ c = cli[r] /\ d = s2c[r] /\ p = Srv(r) /\ k = Done(r)
        BY <2>2 DEF Protocol, SessionOK, Fits
      <3>2. p \in Early \/ p = "exec"
        BY <2>2, <3>1 DEF Srv, Early
      <3>3. c \in ClientState /\ k \in Nat
        BY <3>1, DoneType DEF TypeOK, ClientTypeOK
      <3>4. d = <<>> /\ \A n \in 1..Len(c.got) : c.got[n] \in Own(r, c, n)
        BY <3>1, <3>2, <3>3, Bereaved
      <3> QED BY <1>1, <3>1, <3>4 DEF Bereft
    <2> QED BY <2>1, <2>2
  <1>3. Excused'
    BY <1>1 DEF Excused, Unfinished
  <1>4. Queue' /\ Ended' /\ Keys'
    BY <1>1 DEF Protocol, Queue, Ended, Keys
  <1>5. ASSUME NEW r \in Sessions PROVE Answered(r)'
    <2>1. Answered(r)
      BY DEF Protocol
    <2> QED BY <1>1, <2>1 DEF Answered, Own
  <1> QED BY <1>1, <1>2, <1>3, <1>4, <1>5 DEF Protocol

LEMMA KeysSame ==
  ASSUME Keys, up, cli' = cli, cur' = cur, fresh' = fresh,
         encryption_mode' = encryption_mode, pc \notin {"accept", "mode", "key"},
         encryption_mode = 1 => Current'.key = Current.key
  PROVE  Keys'
  BY DEF Keys

LEMMA CurrentFits ==
  ASSUME TypeOK, Protocol, pc \notin {"accept", "dead"}
  PROVE  /\ up /\ cur \in Sessions /\ pc \in Place
         /\ cli[cur] \in ClientState /\ Current \in EnclaveState
         /\ c2s[cur] \in Seq(UpUnit) /\ s2c[cur] \in Seq(DownUnit) /\ Done(cur) \in Nat
         /\ unique_eid \in Eids
         /\ Fits(cur, cli[cur], c2s[cur], s2c[cur], pc, Done(cur), encryption_mode, Current,
                 disk, fin)
  <1>1. cur \in Sessions /\ unique_eid \in Eids /\ Current \in EnclaveState
    BY DEF TypeOK, ServerTypeOK, Current
  <1>2. cli[cur] \in ClientState /\ c2s[cur] \in Seq(UpUnit) /\ s2c[cur] \in Seq(DownUnit)
    BY <1>1, Streams DEF StreamsType
  <1>3. Done(cur) \in Nat
    BY DoneType
  <1>4. up /\ SessionOK(cur) /\ Srv(cur) = pc
    BY <1>1 DEF Protocol, Srv
  <1>5. pc \in Place
    BY <1>4, SrvPlace
  <1>6. Fits(cur, cli[cur], c2s[cur], s2c[cur], pc, Done(cur), encryption_mode, Current,
             disk, fin)
    BY <1>4, Zenon DEF SessionOK
  <1> QED BY <1>1, <1>2, <1>3, <1>4, <1>5, <1>6, Zenon

\* The session the server serves, after its step.
LEMMA NextFits ==
  ASSUME cur' = cur, cli' = cli, fin' = fin, NEW u, NEW d, NEW p, NEW k, NEW em, NEW e,
         NEW files,
         u = c2s'[cur], d = s2c'[cur], p = (IF pc' = "accept" THEN "waits" ELSE pc'),
         k = Done(cur)', em = encryption_mode', e = Current', files = disk',
         Fits(cur, cli[cur], u, d, p, k, em, e, files, fin)
  PROVE  SessionOK(cur)'
  <1>1. Srv(cur)' = p
    BY DEF Srv
  <1> QED BY <1>1 DEF SessionOK

LEMMA AcceptKept ==
  ASSUME TypeOK, Protocol, Accept, cli' = cli
  PROVE  Protocol'
  <1>1. /\ pc = "accept" /\ pc' = "mode" /\ up /\ up' = up
        /\ c2s' = c2s /\ s2c' = s2c /\ fin' = fin /\ fresh' = fresh
        /\ encryption_mode' = encryption_mode /\ ran' = ran /\ disk' = disk
        /\ Current' = Current
    BY DEF Accept, Protocol, sgx, Current
  <1>2. backlog \in Seq(Sessions) /\ backlog # <<>> /\ cur' = Head(backlog)
        /\ backlog' = Tail(backlog)
    BY DEF Accept, TypeOK, WireTypeOK
  <1>3. /\ Len(backlog) \in Nat /\ Len(backlog') = Len(backlog) - 1
        /\ 1 \in 1..Len(backlog) /\ cur' = backlog[1] /\ cur' \in Sessions
        /\ \A i \in 1..Len(backlog') : i + 1 \in 1..Len(backlog) /\ backlog'[i] = backlog[i + 1]
    BY <1>2
  <1>4. Queue'
    <2>1. ASSUME NEW i \in 1..Len(backlog') PROVE cli'[backlog'[i]].pc # "idle"
      BY <1>3 DEF Protocol, Queue
    <2>2. ASSUME NEW i \in 1..Len(backlog') PROVE backlog'[i] # cur'
      <3>1. i \in Nat /\ i >= 1
        BY <1>3
      <3>2. i + 1 # 1
        BY <3>1
      <3>3. backlog[i + 1] # backlog[1]
        BY <1>3, <3>2 DEF Protocol, Queue
      <3> QED BY <1>3, <3>3
    <2>3. ASSUME NEW i \in 1..Len(backlog'), NEW j \in 1..Len(backlog'),
                 backlog'[i] = backlog'[j]
          PROVE  i = j
      <3>1. i + 1 = j + 1
        BY <1>3, <2>3 DEF Protocol, Queue
      <3>2. i \in Nat /\ j \in Nat
        BY <1>3
      <3> QED BY <3>1, <3>2
    <2> QED BY <2>1, <2>2, <2>3 DEF Queue
  <1>5. ASSUME NEW r \in Sessions PROVE SessionOK(r)'
    <2>1. SessionOK(r) /\ Srv(r) = "waits" /\ Done(r)' = Done(r)
      BY <1>1 DEF Protocol, Srv, Done
    <2>2. CASE r = cur'
      <3>1. PICK c, u, d, k, em, e, files, gone :
              /\ c = cli[r] /\ u = c2s[r] /\ d = s2c[r] /\ k = Done(r)
              /\ em = encryption_mode /\ e = Current /\ files = disk /\ gone = fin
        OBVIOUS
      <3>2. c \in ClientState /\ u \in Seq(UpUnit)
        BY <3>1, Streams DEF StreamsType
      <3>3. Fits(r, c, u, d, "waits", k, em, e, files, gone)
        BY <2>1, <3>1 DEF SessionOK
      <3>4. c.pc # "idle"
        BY <1>3, <2>2, <3>1 DEF Protocol, Queue
      <3>5. Fits(r, c, u, d, "mode", k, em, e, files, gone)
        BY <3>2, <3>3, <3>4, Accepted, Zenon
      <3>6. Srv(r)' = "mode" /\ Done(r)' = k
        BY <1>1, <2>1, <2>2, <3>1 DEF Srv
      <3> QED BY <1>1, <3>1, <3>5, <3>6 DEF SessionOK
    <2>3. CASE r # cur'
      <3>1. Srv(r)' = Srv(r)
        BY <2>1, <2>3 DEF Srv
      <3> QED BY <1>1, <2>1, <3>1, Unmoved
    <2> QED BY <2>2, <2>3
  <1>6. Keys' /\ Ended'
    BY <1>1 DEF Keys, Ended, Protocol
  <1>7. ASSUME NEW r \in Sessions PROVE Answered(r)'
    <2>1. Answered(r)
      BY DEF Protocol
    <2> QED BY <1>1, <2>1 DEF Answered, Own
  <1> QED BY <1>1, <1>4, <1>5, <1>6, <1>7 DEF Protocol

\* A reset is the only thing the server's reads leave in rst; the streams of the others
\* stay when the server takes a unit of its session or writes to it.
LEMMA ServesWhen ==
  ASSUME TypeOK, Protocol, cli' = cli, fin' = fin, up' = up, backlog' = backlog, cur' = cur,
         pc \notin {"accept", "dead"}, pc' # "dead",
         c2s' = c2s \/ \E u : c2s' = [c2s EXCEPT ![cur] = u],
         s2c' = s2c \/ \E d : s2c' = [s2c EXCEPT ![cur] = d],
         \A r \in Sessions \ {cur} : Done(r)' = Done(r)
  PROVE  Serves
  <1>1. up
    BY CurrentFits
  <1>2. StreamsType
    BY Streams
  <1>3. ASSUME NEW r \in Sessions \ {cur} PROVE c2s'[r] = c2s[r] /\ s2c'[r] = s2c[r]
    BY <1>2 DEF StreamsType
  <1> QED BY <1>1, <1>3 DEF Serves

LEMMA DoneSame ==
  ASSUME ran' = ran
  PROVE  \A r : Done(r)' = Done(r)
  BY DEF Done

LEMMA SessionStarted ==
  ASSUME TypeOK, NEW m \in Nat, StartSession(m)
  PROVE  /\ encryption_mode' = m
         /\ pc' = IF m = 1 THEN "key" ELSE "count"
         /\ fresh' \in Nat /\ fresh' >= fresh
         /\ m = 1 => Current'.open /\ Current'.response = <<>> /\ ~Current'.crashed
  <1>1. encryption_mode' = m /\ pc' = IF m = 1 THEN "key" ELSE "count"
    BY DEF StartSession
  <1>2. fresh' \in Nat /\ fresh' >= fresh
    BY DEF StartSession, TypeOK, ServerTypeOK, sgx
  <1>3. ASSUME m = 1
        PROVE  Current'.open /\ Current'.response = <<>> /\ ~Current'.crashed
    <2>1. PICK n : n = EcallGenPkeys(EcallInit(Loaded), fresh + 1)
      OBVIOUS
    <2>2. PICK x \in Eids : unique_eid' = x /\ enclave' = [enclave EXCEPT ![x] = n]
      BY <1>3, <2>1 DEF StartSession, SetupEnclave
    <2>3. Current' = n
      BY <2>2 DEF Current, TypeOK, ServerTypeOK
    <2>4. n.open /\ n.response = <<>> /\ ~n.crashed
      BY <2>1 DEF EcallGenPkeys, EcallInit, Bootstrap, Loaded, Reads, Empty
    <2> QED BY <2>3, <2>4
  <1> QED BY <1>1, <1>2, <1>3

LEMMA RecvModeKept ==
  ASSUME TypeOK, Protocol, RecvMode, cli' = cli
  PROVE  Protocol'
  <1>1. /\ pc = "mode" /\ s2c' = s2c /\ fin' = fin /\ up' = up /\ backlog' = backlog
        /\ cur' = cur /\ disk' = disk /\ ran' = ran
    BY DEF RecvMode
  <1>2. /\ up /\ cur \in Sessions /\ cli[cur] \in ClientState /\ c2s[cur] \in Seq(UpUnit)
        /\ Done(cur) \in Nat
        /\ Fits(cur, cli[cur], c2s[cur], s2c[cur], "mode", Done(cur), encryption_mode,
                Current, disk, fin)
    BY <1>1, CurrentFits
  <1>3. PICK m \in Nat :
          /\ StartSession(m)
          /\ \/ /\ ArrivedUp(cur, "num") /\ m \in {0, 1, 2} /\ m = Head(c2s[cur]).v
                /\ TakeUp(cur)
             \/ EofUp(cur) /\ c2s' = c2s
    <2>1. encryption_mode \in Nat
      BY DEF TypeOK, ServerTypeOK
    <2> QED BY <2>1, Zenon DEF RecvMode
  <1>4. /\ encryption_mode' = m /\ pc' = IF m = 1 THEN "key" ELSE "count"
        /\ fresh' \in Nat /\ fresh' >= fresh
        /\ m = 1 => Current'.open /\ Current'.response = <<>> /\ ~Current'.crashed
    BY <1>3, SessionStarted, Zenon
  <1>5. pc' \in {"key", "count"}
    BY <1>4
  <1>6. Serves
    <2>1. c2s' = c2s \/ \E u : c2s' = [c2s EXCEPT ![cur] = u]
      BY <1>3 DEF TakeUp
    <2> QED BY <1>1, <1>5, <2>1, DoneSame, ServesWhen
  <1>7. Keys'
    <2>1. ASSUME NEW r \in Sessions PROVE cli'[r].key <= fresh'
      <3>1. cli[r].key <= fresh /\ cli[r].key \in Nat /\ fresh \in Nat
        BY <1>2 DEF Protocol, Keys, TypeOK, ClientTypeOK, ClientState, ServerTypeOK
      <3> QED BY <1>4, <3>1
    <2>2. encryption_mode' = 1 => pc' = "key"
      BY <1>4
    <2> QED BY <2>1, <2>2 DEF Keys
  <1>8. PICK c, u, d, k, em, e, files, gone, u1, e1, p1 :
          /\ c = cli[cur] /\ u = c2s[cur] /\ d = s2c[cur] /\ k = Done(cur)
          /\ em = encryption_mode /\ e = Current /\ files = disk /\ gone = fin
          /\ u1 = c2s'[cur] /\ e1 = Current' /\ p1 = pc'
    OBVIOUS
  <1>9. c \in ClientState /\ u \in Seq(UpUnit) /\ Fits(cur, c, u, d, "mode", k, em, e, files, gone)
    BY <1>2, <1>8
  <1>10. Fits(cur, c, u1, d, p1, k, m, e1, files, gone)
    <2>1. CASE ArrivedUp(cur, "num") /\ m \in {0, 1, 2} /\ m = Head(c2s[cur]).v /\ TakeUp(cur)
      <3>1. u # <<>> /\ Head(u).t = "num" /\ m = Head(u).v
        BY <1>8, <2>1 DEF ArrivedUp
      <3>2. u1 = Tail(u)
        BY <1>2, <1>8, <2>1, Streams DEF StreamsType, TakeUp
      <3>3. ~CutUnit(Head(u))
        BY <3>1 DEF CutUnit
      <3>4. Head(u) = TheInt(c.mode)
        BY <1>2, <1>9, <3>1, <3>3, ModeRead, Zenon
      <3>5. m = c.mode /\ Sends(c.mode)
        BY <2>1, <3>1, <3>4 DEF TheInt, Sends
      <3>6. \A q, x :
                /\ q = IF c.mode = 1 THEN "key" ELSE "count"
                /\ c.mode = 1 => x.open /\ x.response = <<>> /\ ~x.crashed
                => Fits(cur, c, Tail(u), d, q, k, c.mode, x, files, gone)
        BY <1>2, <1>9, <3>1, <3>3, <3>5, ModeRead, Zenon
      <3>7. /\ p1 = IF c.mode = 1 THEN "key" ELSE "count"
            /\ c.mode = 1 => e1.open /\ e1.response = <<>> /\ ~e1.crashed
        BY <1>4, <1>8, <3>5
      <3>8. Fits(cur, c, Tail(u), d, p1, k, c.mode, e1, files, gone)
        BY <3>6, <3>7, Zenon
      <3> QED BY <3>2, <3>5, <3>8
    <2>2. CASE EofUp(cur) /\ c2s' = c2s
      <3>1. u1 = <<>> /\ cur \in gone
        BY <1>8, <2>2 DEF EofUp
      <3>2. p1 # "exec"
        BY <1>5, <1>8
      <3> QED BY <3>1, <3>2, GoneFits
    <2> QED BY <1>3, <2>1, <2>2
  <1>11. SessionOK(cur)'
    <2>1. Fits(cur, cli[cur], u1, d, p1, k, m, e1, files, fin)
      BY <1>8, <1>10
    <2>2. p1 = (IF pc' = "accept" THEN "waits" ELSE pc')
      BY <1>5, <1>8
    <2>3. /\ u1 = c2s'[cur] /\ d = s2c'[cur] /\ k = Done(cur)' /\ m = encryption_mode'
          /\ e1 = Current' /\ files = disk'
      BY <1>1, <1>4, <1>8, DoneSame
    <2> QED BY <1>1, <2>1, <2>2, <2>3, NextFits
  <1> QED BY <1>6, <1>7, <1>11, ServerKept

LEMMA UnknownModeKept ==
  ASSUME TypeOK, Protocol, UnknownMode, cli' = cli
  PROVE  Protocol'
  <1>1. pc = "mode" /\ ArrivedUp(cur, "num") /\ Head(c2s[cur]).v \notin {0, 1, 2} /\ Die
    BY DEF UnknownMode
  <1>2. /\ up /\ cur \in Sessions /\ cli[cur] \in ClientState /\ c2s[cur] \in Seq(UpUnit)
        /\ Fits(cur, cli[cur], c2s[cur], s2c[cur], "mode", Done(cur), encryption_mode,
                Current, disk, fin)
    BY <1>1, CurrentFits
  <1>3. c2s[cur] # <<>> /\ ~CutUnit(Head(c2s[cur]))
    BY <1>1 DEF ArrivedUp, CutUnit
  <1>4. Head(c2s[cur]) = TheInt(cli[cur].mode)
    BY <1>2, <1>3, ModeRead, Zenon
  <1>5. ~Sends(cli[cur].mode)
    BY <1>1, <1>4 DEF TheInt, Sends
  <1> QED BY <1>1, <1>2, <1>5, Died DEF Excused, Early

LEMMA HandshakeKept ==
  ASSUME TypeOK, Protocol, Handshake, cli' = cli
  PROVE  Protocol'
  <1>1. /\ pc = "key" /\ pc' = "count" /\ fin' = fin /\ up' = up /\ backlog' = backlog
        /\ cur' = cur /\ encryption_mode' = encryption_mode /\ disk' = disk /\ ran' = ran
        /\ unique_eid' = unique_eid /\ fresh' = fresh + 1
    BY DEF Handshake
  <1>2. /\ up /\ cur \in Sessions /\ cli[cur] \in ClientState /\ Current \in EnclaveState
        /\ c2s[cur] \in Seq(UpUnit) /\ s2c[cur] \in Seq(DownUnit) /\ Done(cur) \in Nat
        /\ unique_eid \in Eids
        /\ Fits(cur, cli[cur], c2s[cur], s2c[cur], "key", Done(cur), encryption_mode,
                Current, disk, fin)
    BY <1>1, CurrentFits
  <1>3. PICK cpk, e1 :
          /\ cpk = IF c2s[cur] = <<>> THEN NoSession ELSE Head(c2s[cur]).v
          /\ e1 = EcallSendAesKey(EcallRegisterClient(enclave[unique_eid], cpk), fresh + 1)
          /\ enclave' = [enclave EXCEPT ![unique_eid] = e1]
          /\ SendDown(cur, HandshakeUnits(e1))
    BY Zenon DEF Handshake
  <1>4. Current' = e1
    BY <1>1, <1>2, <1>3 DEF Current, TypeOK, ServerTypeOK
  <1>5. s2c'[cur] = s2c[cur] \o HandshakeUnits(e1)
    BY <1>2, <1>3, Streams DEF SendDown, StreamsType
  <1>6. (ArrivedUp(cur, "cpk") /\ TakeUp(cur)) \/ (EofUp(cur) /\ c2s' = c2s)
    BY DEF Handshake
  <1>7. Serves
    <2>1. c2s' = c2s \/ \E u : c2s' = [c2s EXCEPT ![cur] = u]
      BY <1>6 DEF TakeUp
    <2>2. \E d : s2c' = [s2c EXCEPT ![cur] = d]
      BY <1>3 DEF SendDown
    <2> QED BY <1>1, <2>1, <2>2, DoneSame, ServesWhen
  <1>8. fresh \in Nat /\ fresh + 1 \in Nat \ {Zero}
    BY DEF TypeOK, ServerTypeOK, Zero
  <1>9. e1.key = fresh + 1
    BY <1>2, <1>3 DEF EcallSendAesKey, EcallRegisterClient, EnclaveState, Current
  <1>10. Keys'
    <2>1. ASSUME NEW r \in Sessions PROVE cli'[r].key <= fresh' /\ cli'[r].key # fresh + 1
      <3>1. cli[r].key <= fresh /\ cli[r].key \in Nat
        BY <1>2 DEF Protocol, Keys, TypeOK, ClientTypeOK, ClientState
      <3> QED BY <1>1, <1>8, <3>1
    <2>2. Current'.key = fresh + 1 /\ Current'.key <= fresh'
      BY <1>1, <1>4, <1>8, <1>9
    <2> QED BY <2>1, <2>2 DEF Keys
  <1>11. PICK c, u, d, k, em, e, files, gone, u1, d1 :
          /\ c = cli[cur] /\ u = c2s[cur] /\ d = s2c[cur] /\ k = Done(cur)
          /\ em = encryption_mode /\ e = Current /\ files = disk /\ gone = fin
          /\ u1 = c2s'[cur] /\ d1 = s2c'[cur]
    OBVIOUS
  <1>12. /\ c \in ClientState /\ u \in Seq(UpUnit) /\ d \in Seq(DownUnit)
         /\ e \in EnclaveState /\ Fits(cur, c, u, d, "key", k, em, e, files, gone)
    BY <1>2, <1>11
  <1>13. Fits(cur, c, u1, d1, "count", k, em, e1, files, gone)
    <2>1. CASE ArrivedUp(cur, "cpk") /\ TakeUp(cur)
      <3>1. u # <<>> /\ ~CutUnit(Head(u))
        BY <1>11, <2>1 DEF ArrivedUp, CutUnit
      <3>2. u1 = Tail(u)
        BY <1>2, <1>11, <2>1, Streams DEF StreamsType, TakeUp
      <3>3. PICK key \in Nat \ {Zero} : key = fresh + 1
        BY <1>8
      <3>4. e1 = EcallSendAesKey(EcallRegisterClient(e, Head(u).v), key)
        <4>1. cpk = Head(u).v
          BY <1>3, <1>11, <3>1
        <4> QED BY <1>3, <1>11, <3>3, <4>1 DEF Current
      <3>5. Fits(cur, c, Tail(u), d \o HandshakeUnits(e1), "count", k, em, e1, files, gone)
        BY <1>2, <1>12, <3>1, <3>4, HandshakeDone, Zenon
      <3> QED BY <1>5, <1>11, <3>2, <3>5
    <2>2. CASE EofUp(cur) /\ c2s' = c2s
      <3>1. u1 = <<>> /\ cur \in gone
        BY <1>11, <2>2 DEF EofUp
      <3> QED BY <3>1, GoneFits
    <2> QED BY <1>6, <2>1, <2>2
  <1>14. SessionOK(cur)'
    <2>1. Fits(cur, cli[cur], u1, d1, "count", k, em, e1, files, fin)
      BY <1>11, <1>13
    <2>2. "count" = (IF pc' = "accept" THEN "waits" ELSE pc')
      BY <1>1
    <2>3. /\ u1 = c2s'[cur] /\ d1 = s2c'[cur] /\ k = Done(cur)' /\ em = encryption_mode'
          /\ e1 = Current' /\ files = disk'
      BY <1>1, <1>4, <1>11, DoneSame
    <2> QED BY <1>1, <2>1, <2>2, <2>3, NextFits
  <1> QED BY <1>7, <1>10, <1>14, ServerKept

\* Writing to a client that is gone, or waiting for its module.
LEMMA LostKept ==
  ASSUME TypeOK, Protocol, KeysLost \/ ResultLost \/ TimersLost \/ ModuleMissing,
         cli' = cli
  PROVE  Protocol'
  <1>1. pc \in {"key", "exec", "timers", "module"} /\ cur \in fin /\ Die
    BY DEF KeysLost, ResultLost, TimersLost, ModuleMissing, DieWriting
  <1>2. up
    BY <1>1, CurrentFits
  <1> QED BY <1>1, <1>2, Died DEF Excused

LEMMA RecvCountKept ==
  ASSUME TypeOK, Protocol, RecvCount, cli' = cli
  PROVE  Protocol'
  <1>1. /\ pc = "count" /\ s2c' = s2c /\ fin' = fin /\ up' = up /\ backlog' = backlog
        /\ cur' = cur /\ encryption_mode' = encryption_mode /\ disk' = disk /\ ran' = ran
        /\ Current' = Current /\ fresh' = fresh
    BY DEF RecvCount, sgx, Current
  <1>2. /\ up /\ cur \in Sessions /\ cli[cur] \in ClientState
        /\ c2s[cur] \in Seq(UpUnit)
        /\ Fits(cur, cli[cur], c2s[cur], s2c[cur], "count", Done(cur), encryption_mode,
                Current, disk, fin)
    BY <1>1, CurrentFits
  <1>3. \/ /\ ArrivedUp(cur, "num") /\ TakeUp(cur)
           /\ pc' = IF Head(c2s[cur]).v = 0 THEN "code" ELSE "module"
        \/ EofUp(cur) /\ c2s' = c2s /\ pc' = "code"
    BY DEF RecvCount
  <1>4. pc' \in {"code", "module"}
    BY <1>3
  <1>5. Serves
    <2>1. c2s' = c2s \/ \E u : c2s' = [c2s EXCEPT ![cur] = u]
      BY <1>3 DEF TakeUp
    <2> QED BY <1>1, <1>4, <2>1, DoneSame, ServesWhen
  <1>6. Keys'
    BY <1>1, <1>2, KeysSame DEF Protocol
  <1>7. PICK c, u, d, k, em, e, files, gone, u1, p1 :
          /\ c = cli[cur] /\ u = c2s[cur] /\ d = s2c[cur] /\ k = Done(cur)
          /\ em = encryption_mode /\ e = Current /\ files = disk /\ gone = fin
          /\ u1 = c2s'[cur] /\ p1 = pc'
    OBVIOUS
  <1>8. /\ c \in ClientState /\ u \in Seq(UpUnit)
        /\ Fits(cur, c, u, d, "count", k, em, e, files, gone)
    BY <1>2, <1>7
  <1>9. Fits(cur, c, u1, d, p1, k, em, e, files, gone)
    <2>1. CASE /\ ArrivedUp(cur, "num") /\ TakeUp(cur)
               /\ pc' = IF Head(c2s[cur]).v = 0 THEN "code" ELSE "module"
      <3>1. u # <<>> /\ ~CutUnit(Head(u))
        BY <1>7, <2>1 DEF ArrivedUp, CutUnit
      <3>2. u1 = Tail(u)
        BY <1>2, <1>7, <2>1, Streams DEF StreamsType, TakeUp
      <3>3. p1 = IF Head(u).v = 0 THEN "code" ELSE "module"
        BY <1>7, <2>1
      <3> QED BY <1>2, <1>8, <3>1, <3>2, <3>3, CountRead, Zenon
    <2>2. CASE EofUp(cur) /\ c2s' = c2s /\ pc' = "code"
      <3>1. u1 = <<>> /\ cur \in gone /\ p1 # "exec"
        BY <1>7, <2>2 DEF EofUp
      <3> QED BY <3>1, GoneFits
    <2> QED BY <1>3, <2>1, <2>2
  <1>10. SessionOK(cur)'
    <2>1. Fits(cur, cli[cur], u1, d, p1, k, em, e, files, fin)
      BY <1>7, <1>9
    <2>2. p1 = (IF pc' = "accept" THEN "waits" ELSE pc')
      BY <1>4, <1>7
    <2>3. /\ u1 = c2s'[cur] /\ d = s2c'[cur] /\ k = Done(cur)' /\ em = encryption_mode'
          /\ e = Current' /\ files = disk'
      BY <1>1, <1>7, DoneSame
    <2> QED BY <1>1, <2>1, <2>2, <2>3, NextFits
  <1> QED BY <1>5, <1>6, <1>10, ServerKept

LEMMA RecvModuleKept ==
  ASSUME TypeOK, Protocol, RecvModule, cli' = cli
  PROVE  Protocol'
  <1>1. /\ pc = "module" /\ pc' = "code" /\ s2c' = s2c /\ fin' = fin /\ up' = up
        /\ backlog' = backlog /\ cur' = cur /\ encryption_mode' = encryption_mode
        /\ ran' = ran /\ Current' = Current /\ fresh' = fresh
    BY DEF RecvModule, sgx, Current
  <1>2. /\ up /\ cur \in Sessions /\ cli[cur] \in ClientState
        /\ c2s[cur] \in Seq(UpUnit)
        /\ Fits(cur, cli[cur], c2s[cur], s2c[cur], "module", Done(cur), encryption_mode,
                Current, disk, fin)
    BY <1>1, CurrentFits
  <1>3. /\ Len(c2s[cur]) >= 2 /\ ~CutUnit(c2s[cur][1]) /\ ~CutUnit(c2s[cur][2])
        /\ c2s' = [c2s EXCEPT ![cur] = Tail(Tail(@))]
    BY DEF RecvModule, CutUnit
  <1>4. disk'.module = [out |-> c2s[cur][1].out, key |-> c2s[cur][1].key]
    BY DEF RecvModule, TypeOK, ServerTypeOK
  <1>5. Serves
    BY <1>1, <1>3, DoneSame, ServesWhen
  <1>6. Keys'
    BY <1>1, <1>2, KeysSame DEF Protocol
  <1>7. PICK c, u, d, k, em, e, files, gone, u1, files1 :
          /\ c = cli[cur] /\ u = c2s[cur] /\ d = s2c[cur] /\ k = Done(cur)
          /\ em = encryption_mode /\ e = Current /\ files = disk /\ gone = fin
          /\ u1 = c2s'[cur] /\ files1 = disk'
    OBVIOUS
  <1>8. /\ c \in ClientState /\ u \in Seq(UpUnit)
        /\ Fits(cur, c, u, d, "module", k, em, e, files, gone)
    BY <1>2, <1>7
  <1>9. u1 = Tail(Tail(u))
    BY <1>2, <1>3, <1>7, Streams DEF StreamsType
  <1>10. /\ Len(u) >= 2 /\ ~CutUnit(u[1]) /\ ~CutUnit(u[2])
         /\ files1.module = [out |-> u[1].out, key |-> u[1].key]
    BY <1>3, <1>4, <1>7
  <1>11. Fits(cur, c, u1, d, "code", k, em, e, files1, gone)
    BY <1>2, <1>8, <1>9, <1>10, ModuleRead, Zenon
  <1>12. SessionOK(cur)'
    <2>1. Fits(cur, cli[cur], u1, d, "code", k, em, e, files1, fin)
      BY <1>7, <1>11
    <2>2. "code" = (IF pc' = "accept" THEN "waits" ELSE pc')
      BY <1>1
    <2>3. /\ u1 = c2s'[cur] /\ d = s2c'[cur] /\ k = Done(cur)' /\ em = encryption_mode'
          /\ e = Current' /\ files1 = disk'
      BY <1>1, <1>7, DoneSame
    <2> QED BY <1>1, <2>1, <2>2, <2>3, NextFits
  <1> QED BY <1>5, <1>6, <1>12, ServerKept

\* Only the packet of a client that is gone, or a reset, makes the server spin.
LEMMA SpinKept ==
  ASSUME TypeOK, Protocol, Spin, cli' = cli
  PROVE  Protocol'
  <1>1. /\ pc \in {"module", "code"} /\ pc' = "spin" /\ c2s' = c2s /\ s2c' = s2c
        /\ fin' = fin /\ up' = up /\ backlog' = backlog /\ cur' = cur /\ disk' = disk
        /\ encryption_mode' = encryption_mode /\ ran' = ran /\ Current' = Current
        /\ fresh' = fresh
    BY DEF Spin, sgx, Current
  <1>2. /\ up /\ cur \in Sessions /\ cli[cur] \in ClientState /\ pc \in Place
        /\ c2s[cur] \in Seq(UpUnit)
        /\ Fits(cur, cli[cur], c2s[cur], s2c[cur], pc, Done(cur), encryption_mode,
                Current, disk, fin)
    BY <1>1, CurrentFits
  <1>3. cur \in fin
    <2>1. CASE ResetUp(cur)
      BY <2>1 DEF ResetUp, EofUp
    <2>2. CASE ~ResetUp(cur)
      <3>1. PICK j \in 1..Len(c2s[cur]) : CutUnit(c2s[cur][j])
        BY <1>2, <2>2 DEF Spin, ArrivedUp, CutUnit
      <3>2. PICK c, u, p, k, em, files, gone :
              /\ UpFits(cur, c, u, p, k, em, files, gone)
              /\ c = cli[cur] /\ u = c2s[cur] /\ p = pc /\ gone = fin
        BY <1>2 DEF Fits
      <3>3. /\ c \in ClientState /\ u \in Seq(UpUnit) /\ p \in Place /\ p # "spin"
            /\ j \in 1..Len(u) /\ CutUnit(u[j])
        BY <1>1, <1>2, <3>1, <3>2
      <3>4. cur \in gone
        BY <3>2, <3>3, CutGone, Zenon
      <3> QED BY <3>2, <3>4
    <2> QED BY <2>1, <2>2
  <1>4. Serves
    BY <1>1, DoneSame, ServesWhen
  <1>5. Keys'
    BY <1>1, <1>2, KeysSame DEF Protocol
  <1>6. PICK u, d, k, em, e, files :
          /\ u = c2s'[cur] /\ d = s2c'[cur] /\ k = Done(cur)' /\ em = encryption_mode'
          /\ e = Current' /\ files = disk'
    OBVIOUS
  <1>7. Fits(cur, cli[cur], u, d, "spin", k, em, e, files, fin)
    BY <1>3 DEF Fits, UpFits
  <1>8. "spin" = (IF pc' = "accept" THEN "waits" ELSE pc')
    BY <1>1
  <1>9. SessionOK(cur)'
    BY <1>1, <1>6, <1>7, <1>8, NextFits
  <1> QED BY <1>4, <1>5, <1>9, ServerKept

LEMMA RequestStarted ==
  ASSUME TypeOK, NEW code, StartRequest(code)
  PROVE  /\ pc' = "exec" /\ s2c' = s2c /\ fin' = fin /\ up' = up /\ backlog' = backlog
         /\ cur' = cur /\ encryption_mode' = encryption_mode /\ fresh' = fresh /\ ran' = ran
         /\ disk'.code = code /\ disk'.module = disk.module
         /\ Current' = IF encryption_mode = 2 THEN Bootstrap(Loaded) ELSE Current
  <1>1. /\ pc' = "exec" /\ s2c' = s2c /\ fin' = fin /\ up' = up /\ backlog' = backlog
        /\ cur' = cur /\ encryption_mode' = encryption_mode /\ fresh' = fresh /\ ran' = ran
    BY DEF StartRequest
  <1>2. disk'.code = code /\ disk'.module = disk.module
    BY DEF StartRequest, TypeOK, ServerTypeOK
  <1>3. CASE encryption_mode = 2
    <2>1. PICK n : n = Bootstrap(Loaded)
      OBVIOUS
    <2>2. PICK x \in Eids : unique_eid' = x /\ enclave' = [enclave EXCEPT ![x] = n]
      BY <1>3, <2>1 DEF StartRequest, SetupEnclave, Local, EcallInit
    <2>3. Current' = n
      BY <2>2 DEF Current, TypeOK, ServerTypeOK
    <2> QED BY <1>1, <1>2, <1>3, <2>1, <2>3, Zenon
  <1>4. CASE encryption_mode # 2
    <2>1. Current' = Current
      BY <1>4 DEF StartRequest, Local, Current
    <2> QED BY <1>1, <1>2, <1>4, <2>1, Zenon
  <1> QED BY <1>3, <1>4

LEMMA RecvCodeKept ==
  ASSUME TypeOK, Protocol, RecvCode, cli' = cli
  PROVE  Protocol'
  <1>1. /\ pc = "code" /\ ArrivedUp(cur, "pkt") /\ ~Head(c2s[cur]).cut /\ TakeUp(cur)
        /\ StartRequest([out |-> Head(c2s[cur]).out, key |-> Head(c2s[cur]).key])
    BY DEF RecvCode
  <1>2. /\ up /\ cur \in Sessions /\ cli[cur] \in ClientState
        /\ c2s[cur] \in Seq(UpUnit) /\ Done(cur) \in Nat
        /\ Fits(cur, cli[cur], c2s[cur], s2c[cur], "code", Done(cur), encryption_mode,
                Current, disk, fin)
    BY <1>1, CurrentFits
  <1>3. PICK code : code = [out |-> Head(c2s[cur]).out, key |-> Head(c2s[cur]).key]
    OBVIOUS
  <1>4. /\ pc' = "exec" /\ s2c' = s2c /\ fin' = fin /\ up' = up /\ backlog' = backlog
        /\ cur' = cur /\ encryption_mode' = encryption_mode /\ fresh' = fresh /\ ran' = ran
        /\ disk'.code = code /\ disk'.module = disk.module
        /\ Current' = IF encryption_mode = 2 THEN Bootstrap(Loaded) ELSE Current
    BY <1>1, <1>3, RequestStarted, Zenon
  <1>5. Serves
    <2>1. \E u : c2s' = [c2s EXCEPT ![cur] = u]
      BY <1>1 DEF TakeUp
    <2> QED BY <1>1, <1>4, <2>1, DoneSame, ServesWhen
  <1>6. Keys'
    <2>1. encryption_mode = 1 => Current' = Current
      BY <1>4
    <2> QED BY <1>1, <1>2, <1>4, <2>1, KeysSame DEF Protocol
  <1>7. PICK c, u, d, k, em, e, files, gone, u1, e1, files1 :
          /\ c = cli[cur] /\ u = c2s[cur] /\ d = s2c[cur] /\ k = Done(cur)
          /\ em = encryption_mode /\ e = Current /\ files = disk /\ gone = fin
          /\ u1 = c2s'[cur] /\ e1 = Current' /\ files1 = disk'
    OBVIOUS
  <1>8. /\ c \in ClientState /\ u \in Seq(UpUnit) /\ k \in Nat
        /\ Fits(cur, c, u, d, "code", k, em, e, files, gone)
    BY <1>2, <1>7
  <1>9. u1 = Tail(u) /\ u # <<>> /\ ~CutUnit(Head(u))
    BY <1>1, <1>2, <1>7, Streams DEF StreamsType, TakeUp, ArrivedUp, CutUnit
  <1>10. /\ files1.code = [out |-> Head(u).out, key |-> Head(u).key]
         /\ files1.module = files.module
    BY <1>3, <1>4, <1>7
  <1>11. e1 = IF em = 2 THEN Bootstrap(Loaded) ELSE e
    BY <1>4, <1>7, Zenon
  <1>12. Fits(cur, c, u1, d, "exec", k, em, e1, files1, gone)
    BY <1>2, <1>8, <1>9, <1>10, <1>11, CodeRead, Zenon
  <1>13. SessionOK(cur)'
    <2>1. Fits(cur, cli[cur], u1, d, "exec", k, em, e1, files1, fin)
      BY <1>7, <1>12
    <2>2. "exec" = (IF pc' = "accept" THEN "waits" ELSE pc')
      BY <1>4
    <2>3. /\ u1 = c2s'[cur] /\ d = s2c'[cur] /\ k = Done(cur)' /\ em = encryption_mode'
          /\ e1 = Current' /\ files1 = disk'
      BY <1>4, <1>7, DoneSame, Zenon
    <2> QED BY <1>4, <2>1, <2>2, <2>3, NextFits
  <1> QED BY <1>5, <1>6, <1>13, ServerKept

LEMMA UnsetLengthKept ==
  ASSUME TypeOK, Protocol, UnsetLength, cli' = cli
  PROVE  Protocol'
  <1>1. pc = "code" /\ c2s[cur] = <<>> /\ cur \in fin
    BY DEF UnsetLength, ResetUp, EofUp
  <1>2. up
    BY <1>1, CurrentFits
  <1>3. CASE Die
    BY <1>1, <1>2, <1>3, Died DEF Excused
  <1>4. CASE StartRequest(Empty) /\ c2s' = c2s
    <2>1. PICK code : code = Empty
      OBVIOUS
    <2>2. /\ pc' = "exec" /\ s2c' = s2c /\ fin' = fin /\ up' = up /\ backlog' = backlog
          /\ cur' = cur /\ encryption_mode' = encryption_mode /\ fresh' = fresh
          /\ ran' = ran /\ disk'.code = code
          /\ Current' = IF encryption_mode = 2 THEN Bootstrap(Loaded) ELSE Current
      BY <1>4, <2>1, RequestStarted, Zenon
    <2>3. Serves
      BY <1>1, <1>4, <2>2, DoneSame, ServesWhen
    <2>4. Keys'
      <3>1. encryption_mode = 1 => Current' = Current
        BY <2>2
      <3> QED BY <1>1, <1>2, <2>2, <3>1, KeysSame DEF Protocol
    <2>5. PICK d, k, em, e, files :
            /\ d = s2c'[cur] /\ k = Done(cur)' /\ em = encryption_mode'
            /\ e = Current' /\ files = disk'
      OBVIOUS
    <2>6. files.code.out = <<>>
      BY <2>1, <2>2, <2>5 DEF Empty
    <2>7. Fits(cur, cli[cur], <<>>, d, "exec", k, em, e, files, fin)
      BY <1>1, <2>6, GoneFits
    <2>8. "exec" = (IF pc' = "accept" THEN "waits" ELSE pc') /\ <<>> = c2s'[cur]
      BY <1>1, <1>4, <2>2
    <2>9. SessionOK(cur)'
      BY <2>2, <2>5, <2>7, <2>8, NextFits
    <2> QED BY <2>3, <2>4, <2>9, ServerKept
  <1> QED BY <1>3, <1>4 DEF UnsetLength

LEMMA EndSessionKept ==
  ASSUME TypeOK, Protocol, EndSession, cli' = cli
  PROVE  Protocol'
  <1>1. /\ pc = "code" /\ pc' = "accept" /\ c2s[cur] = <<>> /\ cur \in fin
        /\ c2s' = c2s /\ s2c' = s2c /\ fin' = fin /\ up' = up /\ backlog' = backlog
        /\ cur' = cur /\ encryption_mode' = encryption_mode /\ fresh' = fresh
        /\ ran' = ran /\ Current' = Current
    BY DEF EndSession, EofUp, wire, Current
  <1>2. up
    BY <1>1, CurrentFits
  <1>3. Serves
    BY <1>1, DoneSame, ServesWhen
  <1>4. Keys'
    BY <1>1, <1>2, KeysSame DEF Protocol
  <1>5. PICK d, k, em, e, files :
          /\ d = s2c'[cur] /\ k = Done(cur)' /\ em = encryption_mode'
          /\ e = Current' /\ files = disk'
    OBVIOUS
  <1>6. Fits(cur, cli[cur], <<>>, d, "waits", k, em, e, files, fin)
    BY <1>1, GoneFits
  <1>7. "waits" = (IF pc' = "accept" THEN "waits" ELSE pc') /\ <<>> = c2s'[cur]
    BY <1>1
  <1>8. SessionOK(cur)'
    BY <1>1, <1>5, <1>6, <1>7, NextFits
  <1> QED BY <1>3, <1>4, <1>8, ServerKept

\* The request of a client that is there, run in an enclave: st is the enclave when
\* main() starts, x when ecall_execute has ended.
Finishes(s, c, e, em, local, files, st, x) ==
  /\ ~st.crashed /\ Runs(st, files.code)
  /\ ResultPacket(Main(st, files.code, files.module), local) \in Results(s, c)
  /\ em = 1 => /\ x.open /\ x.response = <<>> /\ ~x.crashed
               /\ x.key = e.key /\ x.cpk = e.cpk
  /\ em = 2 => ~x.crashed
  /\ em = 1 => /\ st.open = e.open /\ st.response = e.response
               /\ st.key = e.key /\ st.cpk = e.cpk

LEMMA RequestEnds ==
  ASSUME NEW s \in Sessions, NEW c \in ClientState, NEW e \in EnclaveState, NEW u, NEW d,
         NEW k, NEW em, NEW files, AtExec(s, c, u, d, k, em, e, files), em \in {1, 2},
         NEW local \in BOOLEAN, local <=> em = 2,
         files.module \in File, NEW st, st = EcallExecuteStart(e, local),
         NEW x, x = EcallExecuteEnd(Main(st, files.code, files.module))
  PROVE  Finishes(s, c, e, em, local, files, st, x)
  <1>1. /\ st \in EnclaveState /\ st.open /\ ~st.crashed /\ st.response = <<>>
        /\ st.plain = local
        /\ em = 1 => /\ st.open = e.open /\ st.response = e.response
                     /\ st.key = e.key /\ st.cpk = e.cpk
    <2>1. CASE em = 1
      <3>1. st = [e EXCEPT !.plain = local] /\ ~local
        BY <2>1 DEF EcallExecuteStart
      <3>2. e.open /\ ~e.crashed /\ e.response = <<>>
        BY <2>1 DEF AtExec
      <3> QED BY <2>1, <3>1, <3>2 DEF EnclaveState
    <2>2. CASE em = 2
      <3>1. st = [Bootstrap(e) EXCEPT !.plain = local] /\ local
        BY <2>2 DEF EcallExecuteStart
      <3>2. e = Bootstrap(Loaded)
        BY <2>2 DEF AtExec
      <3>3. e.open /\ ~e.crashed /\ e.response = <<>> /\ e.plain
        BY <3>2 DEF Bootstrap, Loaded, Reads, Empty
      <3>4. Bootstrap(e) = e
        BY <3>2, <3>3 DEF Bootstrap, Loaded, Reads, Empty
      <3>5. st = [e EXCEPT !.plain = local]
        BY <3>1, <3>4
      <3> QED BY <2>2, <3>1, <3>3, <3>5 DEF EnclaveState
    <2> QED BY <2>1, <2>2
  <1>2. CanRun(st, c)
    <2>1. em = c.mode /\ (c.mode # 1 => c.key = Zero) /\ (c.mode = 1 => c.key = e.key)
      BY DEF AtExec
    <2>2. CASE em = 1
      BY <1>1, <2>1, <2>2 DEF CanRun
    <2>3. CASE em = 2
      <3>1. st.plain /\ st.open /\ ~st.crashed /\ st.response = <<>>
        BY <1>1, <2>3, Zenon
      <3>2. c.key = Zero
        BY <2>1, <2>3
      <3> QED BY <3>1, <3>2, Zenon DEF CanRun
    <2> QED BY <2>2, <2>3
  <1>3. HasRequest(s, c, files)
    BY DEF AtExec
  <1>4. /\ Runs(st, files.code)
        /\ \E reply \in Own(s, c, c.calls) : Main(st, files.code, files.module) =
             [st EXCEPT !.response = reply.out, !.open = ~st.plain]
    <2>1. RunsTo(s, c, st, files)
      BY <1>1, <1>2, <1>3, RequestRuns
    <2> QED BY <2>1, Zenon DEF RunsTo
  <1>5a. PICK reply \in Own(s, c, c.calls) : Main(st, files.code, files.module) =
            [st EXCEPT !.response = reply.out, !.open = ~st.plain]
    BY <1>4, Zenon
  <1>5. PICK done, call : /\ call = reply.out
                          /\ done = [st EXCEPT !.response = call, !.open = ~st.plain]
                          /\ done = Main(st, files.code, files.module)
    BY <1>5a, Zenon
  <1>6. /\ done.response = call /\ done.key = st.key /\ done.cpk = st.cpk
        /\ done.open = ~st.plain /\ done.crashed = st.crashed
    BY <1>1, <1>5 DEF EnclaveState
  <1>7. ResultPacket(done, local) \in Results(s, c)
    <2>1. c.key = IF local THEN Zero ELSE done.key
      <3>1. st.plain <=> local
        BY <1>1
      <3> QED BY <1>2, <1>6, <3>1 DEF CanRun
    <2>2. ResultPacket(done, local) = Text("result", reply.out, c.key)
      BY <1>5, <1>6, <2>1, Zenon DEF ResultPacket
    <2> QED BY <1>5a, <2>2 DEF Results
  <1>8. /\ x.response = <<>> /\ x.key = st.key /\ x.cpk = st.cpk
        /\ x.open = ~st.plain /\ x.crashed = st.crashed
    <2>1. x = [done EXCEPT !.response = <<>>]
      BY <1>5 DEF EcallExecuteEnd
    <2> QED BY <1>1, <1>5, <1>6, <2>1 DEF EnclaveState
  <1>9. ResultPacket(Main(st, files.code, files.module), local) \in Results(s, c)
    BY <1>5, <1>7, Zenon
  <1>10. /\ em = 1 => /\ x.open /\ x.response = <<>> /\ ~x.crashed
                      /\ x.key = e.key /\ x.cpk = e.cpk
         /\ em = 2 => ~x.crashed
    <2>1. CASE em = 1
      <3>1. ~st.plain
        BY <1>1, <2>1
      <3> QED BY <1>1, <1>8, <2>1, <3>1
    <2>2. CASE em = 2
      <3>1. ~st.crashed /\ x.crashed = st.crashed
        BY <1>1, <1>8, Zenon
      <3>2. em # 1
        BY <2>2
      <3> QED BY <3>1, <3>2, Zenon
    <2> QED BY <2>1, <2>2
  <1> QED BY <1>1, <1>4, <1>9, <1>10, Zenon DEF Finishes

\* The VM of the host, for mode 0.
LEMMA HostRuns ==
  ASSUME NEW s \in Sessions, NEW c \in ClientState, NEW e, NEW u, NEW d,
         NEW k, NEW files, AtExec(s, c, u, d, k, 0, e, files), files.module \in File
  PROVE  /\ Runs(HostVM, files.code)
         /\ ResultPacket(Main(HostVM, files.code, files.module), TRUE) \in Results(s, c)
  <1>1. PICK v : v = HostVM
    OBVIOUS
  <1>2. /\ v \in EnclaveState /\ v.open /\ ~v.crashed /\ v.response = <<>> /\ v.plain
        /\ v.key = Zero
    <2>1. v = [Loaded EXCEPT !.open = TRUE, !.crashed = @ \/ ~Reads(Loaded, Empty)]
      BY <1>1 DEF HostVM, Bootstrap
    <2>2. Reads(Loaded, Empty)
      BY DEF Reads, Loaded, Empty
    <2>3. Loaded \in EnclaveState
      BY LoadedType
    <2>4. Loaded.response = <<>> /\ Loaded.plain /\ Loaded.key = Zero /\ ~Loaded.crashed
      BY DEF Loaded
    <2> QED BY <2>1, <2>2, <2>3, <2>4 DEF EnclaveState
  <1>3. c.key = Zero
    BY DEF AtExec
  <1>4. HasRequest(s, c, files)
    BY DEF AtExec
  <1>5. CanRun(v, c)
    BY <1>2, <1>3 DEF CanRun
  <1>6. /\ Runs(v, files.code)
        /\ \E reply \in Own(s, c, c.calls) : Main(v, files.code, files.module) =
             [v EXCEPT !.response = reply.out, !.open = ~v.plain]
    <2>1. RunsTo(s, c, v, files)
      BY <1>2, <1>4, <1>5, RequestRuns
    <2> QED BY <2>1, Zenon DEF RunsTo
  <1>7a. PICK reply \in Own(s, c, c.calls) : Main(v, files.code, files.module) =
            [v EXCEPT !.response = reply.out, !.open = ~v.plain]
    BY <1>6, Zenon
  <1>7. PICK done, call : /\ call = reply.out
                          /\ done = [v EXCEPT !.response = call, !.open = ~v.plain]
                          /\ done = Main(v, files.code, files.module)
    BY <1>7a, Zenon
  <1>8. done.response = call
    BY <1>2, <1>7 DEF EnclaveState
  <1>9. ResultPacket(done, TRUE) \in Results(s, c)
    <2>1. ResultPacket(done, TRUE) = Text("result", reply.out, c.key)
      BY <1>3, <1>7, <1>8, Zenon DEF ResultPacket
    <2> QED BY <1>7a, <2>1 DEF Results
  <1> QED BY <1>1, <1>6, <1>7, <1>9, Zenon

\* What the server delivers is the result of the request it has counted.
LEMMA Delivered ==
  ASSUME TypeOK, Protocol, pc = "exec", NEW e1, NEW packet, Deliver(e1, packet),
         cli' = cli, disk.code.out # <<>>,
         encryption_mode = 1 => e1.key = Current.key,
         cur \notin fin =>
           /\ packet \in Results(cur, cli[cur])
           /\ encryption_mode = 1 => /\ e1.open /\ e1.response = <<>> /\ ~e1.crashed
                                     /\ e1.key = Current.key /\ e1.cpk = Current.cpk
           /\ encryption_mode = 2 => ~e1.crashed
  PROVE  Protocol'
  <1>1. /\ pc' = "timers" /\ c2s' = c2s /\ fin' = fin /\ up' = up /\ backlog' = backlog
        /\ cur' = cur /\ encryption_mode' = encryption_mode /\ disk' = disk
        /\ unique_eid' = unique_eid /\ fresh' = fresh
        /\ ran' = Append(ran, Head(disk.code.out))
        /\ enclave' = [enclave EXCEPT ![unique_eid] = e1]
        /\ SendDown(cur, <<packet>>)
    BY DEF Deliver
  <1>2. /\ up /\ cur \in Sessions /\ cli[cur] \in ClientState
        /\ c2s[cur] \in Seq(UpUnit) /\ s2c[cur] \in Seq(DownUnit) /\ Done(cur) \in Nat
        /\ unique_eid \in Eids
        /\ Fits(cur, cli[cur], c2s[cur], s2c[cur], "exec", Done(cur), encryption_mode,
                Current, disk, fin)
    BY CurrentFits
  <1>3. Current' = e1
    BY <1>1, <1>2 DEF Current, TypeOK, ServerTypeOK
  <1>4. s2c'[cur] = s2c[cur] \o <<packet>>
    BY <1>1, <1>2, Streams DEF SendDown, StreamsType
  <1>5. PICK r \in Request : r = Head(disk.code.out)
    BY DEF TypeOK, ServerTypeOK, File
  <1>6. r.s = cur
    <2>1. disk.code.out = <<CallOf(cur, cli[cur])>>
      BY <1>2 DEF Fits, UpFits
    <2> QED BY <1>5, <2>1 DEF CallOf, RequestOf
  <1>7. \A q : Done(q)' = IF r.s = q THEN Done(q) + 1 ELSE Done(q)
    BY <1>1, <1>5, DoneGrows
  <1>8. Serves
    <2>1. \E d : s2c' = [s2c EXCEPT ![cur] = d]
      BY <1>1 DEF SendDown
    <2>2. \A q \in Sessions \ {cur} : Done(q)' = Done(q)
      BY <1>6, <1>7
    <2> QED BY <1>1, <2>1, <2>2, ServesWhen
  <1>9. Keys'
    BY <1>1, <1>2, <1>3, KeysSame DEF Protocol
  <1>10. PICK c, u, d, k, em, e, files, gone :
          /\ c = cli[cur] /\ u = c2s[cur] /\ d = s2c[cur] /\ k = Done(cur)
          /\ em = encryption_mode /\ e = Current /\ files = disk /\ gone = fin
    OBVIOUS
  <1>11. /\ c \in ClientState /\ u \in Seq(UpUnit) /\ d \in Seq(DownUnit) /\ k \in Nat
         /\ Fits(cur, c, u, d, "exec", k, em, e, files, gone)
    BY <1>2, <1>10
  <1>12. cur \notin gone => /\ packet \in Results(cur, c)
                            /\ em = 1 => /\ e1.open /\ e1.response = <<>> /\ ~e1.crashed
                                         /\ e1.key = e.key /\ e1.cpk = e.cpk
                            /\ em = 2 => ~e1.crashed
    BY <1>10
  <1>13. Fits(cur, c, u, d \o <<packet>>, "timers", k + 1, em, e1, files, gone)
    BY <1>2, <1>11, <1>12, Executed, Zenon
  <1>14. SessionOK(cur)'
    <2>1. PICK d1, k1 : d1 = d \o <<packet>> /\ k1 = k + 1
      OBVIOUS
    <2>2. Fits(cur, cli[cur], u, d1, "timers", k1, em, e1, files, fin)
      BY <1>10, <1>13, <2>1
    <2>3. "timers" = (IF pc' = "accept" THEN "waits" ELSE pc')
      BY <1>1
    <2>4. k1 = Done(cur)'
      <3>1. Done(cur)' = IF r.s = cur THEN Done(cur) + 1 ELSE Done(cur)
        BY <1>1, <1>7
      <3>2. Done(cur)' = Done(cur) + 1
        BY <1>6, <3>1
      <3> QED BY <1>10, <2>1, <3>2
    <2>5. d1 = s2c'[cur]
      BY <1>4, <1>10, <2>1
    <2>6. u = c2s'[cur] /\ em = encryption_mode' /\ e1 = Current' /\ files = disk'
      BY <1>1, <1>3, <1>10
    <2> QED BY <1>1, <2>2, <2>3, <2>4, <2>5, <2>6, NextFits
  <1> QED BY <1>8, <1>9, <1>14, ServerKept

\* Executing leaves the enclave its key.
LEMMA KeyStays ==
  ASSUME NEW e \in EnclaveState, NEW local \in BOOLEAN, ~local, NEW code, NEW module,
         NEW st, st = EcallExecuteStart(e, local),
         NEW x, x = EcallExecuteEnd(Main(st, code, module))
  PROVE  st.key = e.key /\ st \in EnclaveState /\ x.key = e.key
  <1>1. st = [e EXCEPT !.plain = local]
    BY DEF EcallExecuteStart
  <1>2. st.key = e.key /\ st \in EnclaveState
    BY <1>1 DEF EnclaveState
  <1>3. PICK r, o : Main(st, code, module) = [st EXCEPT !.response = r, !.open = o]
    BY Zenon DEF Main
  <1>4. x = [st EXCEPT !.response = <<>>, !.open = o]
    <2>1. PICK y : y = [st EXCEPT !.response = r, !.open = o]
      OBVIOUS
    <2>2. x = [y EXCEPT !.response = <<>>]
      BY <1>3, <2>1, Zenon DEF EcallExecuteEnd
    <2> QED BY <1>2, <2>1, <2>2 DEF EnclaveState
  <1> QED BY <1>2, <1>4 DEF EnclaveState

\* The session whose request is being executed while its client is there.
LEMMA CurrentExec ==
  ASSUME TypeOK, Protocol, pc = "exec", cur \notin fin
  PROVE  AtExec(cur, cli[cur], c2s[cur], s2c[cur], Done(cur), encryption_mode, Current, disk)
  <1>1. LiveFits(cur, cli[cur], c2s[cur], s2c[cur], "exec", Done(cur), encryption_mode,
                 Current, disk)
    BY CurrentFits DEF Fits
  <1> QED BY <1>1, ExecReached, Zenon

LEMMA ExecuteKept ==
  ASSUME TypeOK, Protocol, Execute, cli' = cli
  PROVE  Protocol'
  <1>1. /\ cur \in Sessions /\ cli[cur] \in ClientState /\ Current \in EnclaveState
        /\ pc = "exec" /\ encryption_mode # 0
    BY CurrentFits DEF Execute
  <1>2. PICK local \in BOOLEAN : local = Local
    BY DEF Local
  <1>3. PICK st, code, module, done, x, packet :
          /\ st = EcallExecuteStart(Current, local) /\ code = disk.code /\ module = disk.module
          /\ done = Main(st, code, module)
          /\ x = EcallExecuteEnd(done) /\ packet = ResultPacket(done, local)
    OBVIOUS
  <1>4. Deliver(x, packet) /\ Runs(st, code)
    BY <1>2, <1>3, Zenon DEF Execute, Started, Current
  <1>5. local <=> encryption_mode = 2
    BY <1>2 DEF Local
  <1>6. disk.code.out # <<>>
    BY <1>3, <1>4 DEF Runs
  <1>7. x = EcallExecuteEnd(Main(st, disk.code, disk.module))
    BY <1>3, Zenon
  <1>8. ASSUME encryption_mode = 1 PROVE x.key = Current.key
    <2>1. ~local
      BY <1>5, <1>8
    <2>2. PICK e : e = Current
      OBVIOUS
    <2>3. e \in EnclaveState /\ st = EcallExecuteStart(e, local)
      BY <1>1, <1>3, <2>2, Zenon
    <2>4. x.key = e.key
      BY <1>7, <2>1, <2>3, KeyStays
    <2> QED BY <2>2, <2>4
  <1>9. ASSUME cur \notin fin
        PROVE  /\ packet \in Results(cur, cli[cur])
               /\ encryption_mode = 1 => /\ x.open /\ x.response = <<>> /\ ~x.crashed
                                         /\ x.key = Current.key /\ x.cpk = Current.cpk
               /\ encryption_mode = 2 => ~x.crashed
    <2>1. PICK c, e, u, d, k, em, files :
            /\ c = cli[cur] /\ e = Current /\ em = encryption_mode /\ files = disk
            /\ u = c2s[cur] /\ d = s2c[cur] /\ k = Done(cur)
      OBVIOUS
    <2>2. AtExec(cur, c, u, d, k, em, e, files)
      BY <1>1, <1>9, <2>1, CurrentExec
    <2>3. em \in {1, 2}
      BY <1>1, <2>1, <2>2 DEF AtExec, Sends
    <2>4. /\ c \in ClientState /\ e \in EnclaveState /\ (local <=> em = 2)
          /\ st = EcallExecuteStart(e, local)
          /\ x = EcallExecuteEnd(Main(st, files.code, files.module))
      BY <1>1, <1>3, <1>5, <1>7, <2>1, Zenon
    <2>b. files.module \in File
      BY <2>1 DEF TypeOK, ServerTypeOK
    <2>5. Finishes(cur, c, e, em, local, files, st, x)
      BY <1>1, <2>2, <2>3, <2>4, <2>b, RequestEnds
    <2>6. /\ ResultPacket(Main(st, files.code, files.module), local) \in Results(cur, c)
          /\ em = 1 => /\ x.open /\ x.response = <<>> /\ ~x.crashed
                       /\ x.key = e.key /\ x.cpk = e.cpk
          /\ em = 2 => ~x.crashed
      BY <2>5, Zenon DEF Finishes
    <2>7. packet \in Results(cur, c)
      BY <1>3, <2>1, <2>6, Zenon
    <2> QED BY <2>1, <2>6, <2>7, Zenon
  <1> QED BY <1>1, <1>4, <1>6, <1>8, <1>9, Delivered, Zenon

LEMMA ExecuteOnHostKept ==
  ASSUME TypeOK, Protocol, ExecuteOnHost, cli' = cli
  PROVE  Protocol'
  <1>1. pc = "exec" /\ encryption_mode = 0 /\ Runs(HostVM, disk.code)
    BY DEF ExecuteOnHost
  <1>2. cur \in Sessions /\ cli[cur] \in ClientState
    BY <1>1, CurrentFits
  <1>3. PICK packet : packet = ResultPacket(Main(HostVM, disk.code, disk.module), TRUE)
    OBVIOUS
  <1>4. Deliver(Current, packet)
    BY <1>3, Zenon DEF ExecuteOnHost, Current
  <1>5. PICK e1 : e1 = Current
    OBVIOUS
  <1>6. disk.code.out # <<>>
    BY <1>1 DEF Runs
  <1>7. ASSUME cur \notin fin PROVE packet \in Results(cur, cli[cur])
    <2>1. PICK c, e, u, d, k, files :
            /\ c = cli[cur] /\ e = Current /\ files = disk
            /\ u = c2s[cur] /\ d = s2c[cur] /\ k = Done(cur)
      OBVIOUS
    <2>2. AtExec(cur, c, u, d, k, 0, e, files)
      BY <1>1, <1>7, <2>1, CurrentExec
    <2>b. files.module \in File
      BY <2>1 DEF TypeOK, ServerTypeOK
    <2>3. ResultPacket(Main(HostVM, files.code, files.module), TRUE) \in Results(cur, c)
      BY <1>2, <2>1, <2>2, <2>b, HostRuns, Zenon
    <2> QED BY <1>3, <2>1, <2>3, Zenon
  <1>8. encryption_mode # 1 /\ encryption_mode # 2
    BY <1>1
  <1>9. Deliver(e1, packet)
    BY <1>4, <1>5, Zenon
  <1> QED BY <1>1, <1>6, <1>7, <1>8, <1>9, Delivered

\* lua_main aborts the process only for a request that raises an error.
LEMMA HostErrorKept ==
  ASSUME TypeOK, Protocol, HostError, cli' = cli
  PROVE  Protocol'
  <1>1. pc = "exec" /\ encryption_mode = 0 /\ Die /\ (LuaErrors \/ ~Runs(HostVM, disk.code))
    BY DEF HostError
  <1>2. up /\ cur \in Sessions /\ cli[cur] \in ClientState /\ Done(cur) \in Nat
    BY <1>1, CurrentFits
  <1>3. ASSUME cur \notin fin PROVE LuaErrors /\ Unfinished(cur)
    <2>1. PICK c, e, u, d, k, files :
            /\ c = cli[cur] /\ e = Current /\ files = disk
            /\ u = c2s[cur] /\ d = s2c[cur] /\ k = Done(cur)
      OBVIOUS
    <2>2. AtExec(cur, c, u, d, k, 0, e, files)
      BY <1>1, <1>3, <2>1, CurrentExec
    <2>b. files.module \in File
      BY <2>1 DEF TypeOK, ServerTypeOK
    <2>3. Runs(HostVM, files.code)
      BY <1>2, <2>1, <2>2, <2>b, HostRuns, Zenon
    <2>4. LuaErrors
      BY <1>1, <2>1, <2>3
    <2>5. c.calls > k
      BY <1>2, <2>1, <2>2 DEF AtExec
    <2> QED BY <2>1, <2>4, <2>5 DEF Unfinished, Done
  <1> QED BY <1>1, <1>2, <1>3, Died DEF Excused

\* main() aborts an enclave only for a request that raises an error.
LEMMA ExecuteFailsKept ==
  ASSUME TypeOK, Protocol, OneEnclave, ExecuteFails, cli' = cli
  PROVE  Protocol'
  <1>1. /\ pc = "exec" /\ pc' = "timers" /\ encryption_mode # 0 /\ c2s' = c2s /\ s2c' = s2c
        /\ fin' = fin /\ up' = up /\ backlog' = backlog /\ cur' = cur
        /\ encryption_mode' = encryption_mode /\ unique_eid' = unique_eid
        /\ fresh' = fresh /\ disk' = disk /\ ran' = ran
        /\ LuaErrors \/ ~Usable \/ ~Runs(Started, disk.code)
        /\ enclave' = [enclave EXCEPT ![unique_eid] = [Started EXCEPT !.crashed = TRUE]]
    BY DEF ExecuteFails, wire
  <1>2. /\ up /\ cur \in Sessions /\ cli[cur] \in ClientState /\ Current \in EnclaveState
        /\ c2s[cur] \in Seq(UpUnit) /\ s2c[cur] \in Seq(DownUnit) /\ Done(cur) \in Nat
        /\ unique_eid \in Eids
        /\ Fits(cur, cli[cur], c2s[cur], s2c[cur], "exec", Done(cur), encryption_mode,
                Current, disk, fin)
    BY <1>1, CurrentFits
  <1>3. PICK local \in BOOLEAN : local = Local
    BY DEF Local
  <1>4. local <=> encryption_mode = 2
    BY <1>3 DEF Local
  <1>5. PICK st, e1, x :
          /\ st = EcallExecuteStart(Current, local) /\ st = Started
          /\ e1 = [st EXCEPT !.crashed = TRUE]
          /\ x = EcallExecuteEnd(Main(st, disk.code, disk.module))
    BY <1>3, Zenon DEF Started, Current
  <1>6. Current' = e1
    <2>1. e1 = [Started EXCEPT !.crashed = TRUE]
      BY <1>5, Zenon
    <2> QED BY <1>1, <1>2, <2>1 DEF Current, TypeOK, ServerTypeOK
  <1>7. ASSUME encryption_mode = 1 PROVE e1.key = Current.key
    <2>1. ~local
      BY <1>4, <1>7
    <2>2. st.key = Current.key /\ st \in EnclaveState
      BY <1>2, <1>5, <2>1, KeyStays, Zenon
    <2> QED BY <1>5, <2>2 DEF EnclaveState
  <1>8. Serves
    BY <1>1, DoneSame, ServesWhen
  <1>9. Keys'
    BY <1>1, <1>2, <1>6, <1>7, KeysSame DEF Protocol
  <1>10. PICK c, u, d, k, em, e, files, gone :
          /\ c = cli[cur] /\ u = c2s[cur] /\ d = s2c[cur] /\ k = Done(cur)
          /\ em = encryption_mode /\ e = Current /\ files = disk /\ gone = fin
    OBVIOUS
  <1>11. /\ c \in ClientState /\ u \in Seq(UpUnit) /\ d \in Seq(DownUnit) /\ k \in Nat
         /\ e \in EnclaveState /\ Fits(cur, c, u, d, "exec", k, em, e, files, gone)
    BY <1>2, <1>10
  <1>12. ASSUME cur \notin gone
         PROVE  /\ LuaErrors
                /\ em = 1 => /\ e1.open = e.open /\ e1.response = e.response
                             /\ e1.key = e.key /\ e1.cpk = e.cpk
    <2>1. AtExec(cur, c, u, d, k, em, e, files)
      BY <1>1, <1>10, <1>12, CurrentExec
    <2>2. em \in {1, 2}
      BY <1>1, <1>10, <2>1 DEF AtExec, Sends
    <2>3. /\ (local <=> em = 2) /\ st = EcallExecuteStart(e, local)
          /\ x = EcallExecuteEnd(Main(st, files.code, files.module))
      BY <1>4, <1>5, <1>10, Zenon
    <2>b. files.module \in File
      BY <1>10 DEF TypeOK, ServerTypeOK
    <2>4. Finishes(cur, c, e, em, local, files, st, x)
      BY <1>2, <1>11, <2>1, <2>2, <2>3, <2>b, RequestEnds
    <2>5. /\ ~st.crashed /\ Runs(st, files.code)
          /\ em = 1 => /\ st.open = e.open /\ st.response = e.response
                       /\ st.key = e.key /\ st.cpk = e.cpk
      BY <2>4, Zenon DEF Finishes
    <2>6. unique_eid \in live
      BY <1>1, <1>2, <1>10, <2>2 DEF OneEnclave, EnclaveServes
    <2>7. LuaErrors
      BY <1>1, <1>5, <1>10, <2>5, <2>6 DEF Usable
    <2>8. em = 1 => e1.open = st.open /\ e1.response = st.response /\ e1.key = st.key
                    /\ e1.cpk = st.cpk
      <3>1. em = 1 => st \in EnclaveState
        <4>1. em = 1 => ~local
          BY <2>3
        <4> QED BY <1>11, <2>3, <4>1, KeyStays
      <3> QED BY <1>5, <3>1 DEF EnclaveState
    <2> QED BY <2>5, <2>7, <2>8
  <1>13. Fits(cur, c, u, d, "timers", k, em, e1, files, gone)
    BY <1>2, <1>11, <1>12, Unexecuted, Zenon
  <1>14. SessionOK(cur)'
    <2>1. Fits(cur, cli[cur], u, d, "timers", k, em, e1, files, fin)
      BY <1>10, <1>13
    <2>2. "timers" = (IF pc' = "accept" THEN "waits" ELSE pc')
      BY <1>1
    <2>3. /\ u = c2s'[cur] /\ d = s2c'[cur] /\ k = Done(cur)' /\ em = encryption_mode'
          /\ e1 = Current' /\ files = disk'
      BY <1>1, <1>6, <1>10, DoneSame
    <2> QED BY <1>1, <2>1, <2>2, <2>3, NextFits
  <1> QED BY <1>8, <1>9, <1>14, ServerKept

LEMMA SendTimersKept ==
  ASSUME TypeOK, Protocol, SendTimers, cli' = cli
  PROVE  Protocol'
  <1>1. /\ pc = "timers" /\ pc' = "code" /\ c2s' = c2s /\ fin' = fin /\ up' = up
        /\ backlog' = backlog /\ cur' = cur /\ encryption_mode' = encryption_mode
        /\ Current' = Current /\ fresh' = fresh /\ disk' = disk /\ ran' = ran
        /\ SendDown(cur, <<Timers>>)
    BY DEF SendTimers, Current, Timers
  <1>2. /\ up /\ cur \in Sessions /\ cli[cur] \in ClientState
        /\ c2s[cur] \in Seq(UpUnit) /\ s2c[cur] \in Seq(DownUnit) /\ Done(cur) \in Nat
        /\ Fits(cur, cli[cur], c2s[cur], s2c[cur], "timers", Done(cur), encryption_mode,
                Current, disk, fin)
    BY <1>1, CurrentFits
  <1>3. s2c'[cur] = s2c[cur] \o <<Timers>>
    BY <1>1, <1>2, Streams DEF SendDown, StreamsType
  <1>4. Serves
    <2>1. \E d : s2c' = [s2c EXCEPT ![cur] = d]
      BY <1>1 DEF SendDown
    <2> QED BY <1>1, <2>1, DoneSame, ServesWhen
  <1>5. Keys'
    BY <1>1, <1>2, KeysSame DEF Protocol
  <1>6. PICK c, u, d, k, em, e, files, gone, d1 :
          /\ c = cli[cur] /\ u = c2s[cur] /\ d = s2c[cur] /\ k = Done(cur)
          /\ em = encryption_mode /\ e = Current /\ files = disk /\ gone = fin
          /\ d1 = s2c'[cur]
    OBVIOUS
  <1>7. /\ c \in ClientState /\ u \in Seq(UpUnit) /\ d \in Seq(DownUnit) /\ k \in Nat
        /\ Fits(cur, c, u, d, "timers", k, em, e, files, gone)
    BY <1>2, <1>6
  <1>8. Fits(cur, c, u, d \o <<Timers>>, "code", k, em, e, files, gone)
    BY <1>2, <1>7, TimersSent, Zenon
  <1>9. SessionOK(cur)'
    <2>1. Fits(cur, cli[cur], u, d1, "code", k, em, e, files, fin)
      BY <1>3, <1>6, <1>8
    <2>2. "code" = (IF pc' = "accept" THEN "waits" ELSE pc')
      BY <1>1
    <2>3. /\ u = c2s'[cur] /\ d1 = s2c'[cur] /\ k = Done(cur)' /\ em = encryption_mode'
          /\ e = Current' /\ files = disk'
      BY <1>1, <1>6, DoneSame
    <2> QED BY <1>1, <2>1, <2>2, <2>3, NextFits
  <1> QED BY <1>4, <1>5, <1>9, ServerKept

LEMMA ServerKeeps ==
  ASSUME TypeOK, Protocol, OneEnclave, ServerNext
  PROVE  Protocol'
  <1>1. ServerStep /\ cli' = cli
    BY DEF ServerNext
  <1> QED BY <1>1, AcceptKept, RecvModeKept, UnknownModeKept, HandshakeKept, LostKept,
             RecvCountKept, RecvModuleKept, SpinKept, RecvCodeKept, UnsetLengthKept,
             EndSessionKept, ExecuteKept, ExecuteFailsKept, ExecuteOnHostKept,
             HostErrorKept, SendTimersKept DEF ServerStep

-----------------------------------------------------------------------------
(* The invariant.                                                          *)

LEMMA InitProtocol == Init => Protocol
  <1> SUFFICES ASSUME Init PROVE Protocol
    OBVIOUS
  <1>1. /\ pc = "accept" /\ up /\ backlog = <<>> /\ fin = {} /\ ran = <<>>
        /\ fresh = 0 /\ cur \in Sessions /\ \A s \in Sessions : c2s[s] = <<>> /\ s2c[s] = <<>>
    BY DEF Init, WireInit, ServerInit
  <1>2. \A s \in Sessions :
          /\ cli[s].pc = "idle" /\ cli[s].mode = 0 /\ ~cli[s].module /\ cli[s].calls = 0
          /\ cli[s].key = Zero /\ cli[s].got = <<>>
    <2>1. ASSUME NEW s \in Sessions
          PROVE  /\ cli[s].pc = "idle" /\ cli[s].mode = 0 /\ cli[s].module = FALSE
                 /\ cli[s].calls = 0 /\ cli[s].key = Zero /\ cli[s].got = <<>>
      <3>1. cli[s] = [pc |-> "idle", mode |-> 0, module |-> FALSE, calls |-> 0,
                      spk |-> Zero, half |-> Zero, key |-> Zero, got |-> <<>>]
        BY DEF Init, ClientInit
      <3> QED BY <3>1
    <2> QED BY <2>1, Zenon
  <1>3. ASSUME NEW s \in Sessions PROVE SessionOK(s)
    <2>1. Srv(s) = "waits"
      BY <1>1 DEF Srv
    <2>2. Done(s) = 0
      <3>1. {i \in 1..Len(ran) : ran[i].s = s} = {}
        BY <1>1
      <3> QED BY <3>1, FS_EmptySet DEF Done
    <2>3. PICK c, em, e, files :
            c = cli[s] /\ em = encryption_mode /\ e = Current /\ files = disk
      OBVIOUS
    <2>4. /\ c.pc = "idle" /\ c.mode = 0 /\ ~c.module /\ c.calls = 0 /\ c.key = Zero
          /\ c.got = <<>>
      BY <1>2, <2>3
    <2>5. UpFits(s, c, <<>>, "waits", 0, em, files, {})
      BY DEF UpFits
    <2>6. Starts(c, <<>>, <<>>, "waits", 0)
      BY <2>4 DEF Starts, Reading, Early, Written
    <2>7. GotFits(s, c, 0)
      BY <2>4 DEF GotFits
    <2>8. EnclaveFits(s, c, "waits", 0, em, e)
      BY DEF EnclaveFits, Early
    <2>9. LiveFits(s, c, <<>>, <<>>, "waits", 0, em, e, files)
      BY <2>4, <2>6, <2>7, <2>8 DEF LiveFits, Early, Setup, Serving
    <2> QED BY <1>1, <2>1, <2>2, <2>3, <2>5, <2>9 DEF SessionOK, Fits
  <1>4. Queue /\ Ended
    BY <1>1, <1>2 DEF Queue, Ended
  <1>5. Keys
    BY <1>1, <1>2 DEF Keys, Zero
  <1>6. \A s \in Sessions : Answered(s)
    BY <1>2 DEF Answered
  <1> QED BY <1>1, <1>3, <1>4, <1>5, <1>6 DEF Protocol

LEMMA StutterKeeps ==
  ASSUME Protocol, UNCHANGED vars
  PROVE  Protocol'
  <1>1. UNCHANGED <<c2s, s2c, fin, rst, up, backlog, cli, pc, cur, encryption_mode, code_len,
                    unique_eid, live, enclave, fresh, disk, ran>>
    BY DEF vars, wire, server, host, sgx
  <1>2. Current' = Current
    BY <1>1 DEF Current
  <1>3. \A s \in Sessions : Done(s)' = Done(s) /\ Srv(s)' = Srv(s)
    BY <1>1 DEF Done, Srv
  <1>4. \A s \in Sessions : SessionOK(s) => SessionOK(s)'
    BY <1>1, <1>2, <1>3, Unmoved
  <1>5. \A s \in Sessions : (Bereft(s) => Bereft(s)') /\ (Answered(s) => Answered(s)')
    BY <1>1 DEF Bereft, Answered, Own
  <1>6. Queue' /\ Ended' /\ Keys'
    BY <1>1, <1>2 DEF Protocol, Queue, Ended, Keys
  <1>7. Excused => Excused'
    BY <1>1 DEF Excused, Unfinished
  <1> QED BY <1>1, <1>4, <1>5, <1>6, <1>7 DEF Protocol

(***************************************************************************)
(* Wherever clients die and whatever their requests raise, the two ends of *)
(* each connection are at places of the protocol that fit (App.cpp:130-    *)
(* 206 against lclient.lua and client.c).                                  *)
(***************************************************************************)
THEOREM ProtocolHolds == Spec => []Protocol
  <1>1. TypeOK /\ TypeOK' /\ OneEnclave /\ Protocol /\ [Next]_vars => Protocol'
    <2> SUFFICES ASSUME TypeOK, TypeOK', OneEnclave, Protocol, [Next]_vars
                 PROVE  Protocol'
      OBVIOUS
    <2>1. CASE UNCHANGED vars
      BY <2>1, StutterKeeps
    <2>2. CASE Terminated
      BY <2>2, StutterKeeps DEF Terminated
    <2>3. ASSUME NEW s \in Sessions, Step(s) \/ Kill(s) PROVE Protocol'
      BY <2>3, ClientKeeps DEF ClientAct
    <2>4. CASE ServerNext
      BY <2>4, ServerKeeps
    <2> QED BY <2>1, <2>2, <2>3, <2>4 DEF Next
  <1> QED BY <1>1, InitProtocol, TypeCorrect, EnclavesNeverLeak, PTL DEF Spec

-----------------------------------------------------------------------------
(* What follows from it.                                                   *)

(***************************************************************************)
(* Every call returns its own output, nothing when the server is gone, or  *)
(* the timers when it raised an error (offload, App.cpp:164).              *)
(***************************************************************************)
THEOREM ResponsesOwn == Spec => []ResponseIsOwn
  <1>1. Protocol => ResponseIsOwn
    BY DEF Protocol, Answered, ResponseIsOwn
  <1> QED BY <1>1, ProtocolHolds, PTL

\* A client that is there, while the server is up.
LEMMA Present ==
  ASSUME TypeOK, Protocol, up, NEW s \in Sessions, s \notin fin
  PROVE  /\ cli[s] \in ClientState /\ Srv(s) \in Place
         /\ Fits(s, cli[s], c2s[s], s2c[s], Srv(s), Done(s), encryption_mode, Current,
                 disk, fin)
         /\ LiveFits(s, cli[s], c2s[s], s2c[s], Srv(s), Done(s), encryption_mode, Current,
                     disk)
         /\ Srv(s) # "waits" => s = cur /\ Srv(s) = pc
  <1>1. Srv(s) \in Place
    BY SrvPlace
  <1>2. Fits(s, cli[s], c2s[s], s2c[s], Srv(s), Done(s), encryption_mode, Current, disk, fin)
    BY DEF Protocol, SessionOK
  <1>3. cli[s] \in ClientState
    BY DEF TypeOK, ClientTypeOK
  <1> QED BY <1>1, <1>2, <1>3 DEF Fits, Srv

(***************************************************************************)
(* After the handshake the session and the enclave hold the same key, and  *)
(* no other session has it (client.c:lhandshake, ecall_send_aes_key).      *)
(***************************************************************************)
THEOREM KeysHeld == Spec => []KeysAgree
  <1>1. TypeOK /\ Protocol => KeysAgree
    <2> SUFFICES ASSUME TypeOK, Protocol, NEW s \in Sessions, up, cli[s].mode = 1,
                        cli[s].pc \in {"count", "file", "name", "ready", "response", "timers"}
                 PROVE  /\ cur = s /\ cli[s].key # Zero /\ cli[s].key = Current.key
                        /\ \A r \in Sessions \ {s} : cli[r].key # cli[s].key
      BY DEF KeysAgree, Current
    <2>1. s \notin fin
      BY DEF Protocol, Ended
    <2>2. PICK c, u, d, p, k, em, e, files :
            /\ c = cli[s] /\ u = c2s[s] /\ d = s2c[s] /\ p = Srv(s) /\ k = Done(s)
            /\ em = encryption_mode /\ e = Current /\ files = disk
      OBVIOUS
    <2>3. LiveFits(s, c, u, d, p, k, em, e, files) /\ p \in Place
      BY <2>1, <2>2, Present
    <2>4. /\ p \notin {"waits", "mode", "key", "spin", "dead"} /\ em = 1
          /\ c.key = e.key /\ e.key # Zero
      BY <2>2, <2>3 DEF LiveFits, Shakes, EnclaveFits, Early, Place, Setup, Serving
    <2>5. s = cur /\ p = pc
      BY <2>1, <2>2, <2>4, Present
    <2>6. pc # "accept"
      BY <2>3, <2>5 DEF Place, Setup, Serving
    <2>7. \A r \in Sessions \ {cur} : cli[r].key # Current.key
      BY <2>2, <2>4, <2>5, <2>6 DEF Protocol, Keys
    <2> QED BY <2>2, <2>4, <2>5, <2>7
  <1> QED BY <1>1, ProtocolHolds, TypeCorrect, PTL

(***************************************************************************)
(* The server stays up and its enclave is not aborted while its client is  *)
(* there, asked for a known mode and has no request that raised an error   *)
(* (ecall_execute, main of lua.cpp, lua_main).                             *)
(***************************************************************************)
THEOREM NeverAborted == Spec => []NoSpuriousAbort
  <1>1. TypeOK /\ OneEnclave /\ Protocol => NoSpuriousAbort
    <2> SUFFICES ASSUME TypeOK, OneEnclave, Protocol, cur \notin fin, Sends(cli[cur].mode),
                        ~(LuaErrors /\ Unfinished(cur))
                 PROVE  up /\ \A i \in live : ~enclave[i].crashed
      BY DEF NoSpuriousAbort
    <2>1. up
      BY DEF Protocol, Excused
    <2>2. ASSUME NEW i \in live PROVE ~enclave[i].crashed
      <3>1. i = unique_eid /\ EnclaveServes
        BY <2>1 DEF OneEnclave
      <3>2. pc \notin {"accept", "waits"} /\ cur \in Sessions
        BY <3>1 DEF EnclaveServes, TypeOK, ServerTypeOK, ServerPc
      <3>3. PICK c, u, d, p, k, em, e, files :
              /\ c = cli[cur] /\ u = c2s[cur] /\ d = s2c[cur] /\ p = Srv(cur) /\ k = Done(cur)
              /\ em = encryption_mode /\ e = Current /\ files = disk
        OBVIOUS
      <3>4. EnclaveFits(cur, c, p, k, em, e) /\ p = pc /\ c \in ClientState
        BY <2>1, <3>2, <3>3, Present DEF LiveFits, Srv
      <3>5. \/ em = 1 /\ p \notin Early
            \/ em = 2 /\ p = "exec"
            \/ em = 2 /\ p = "timers"
        BY <3>1, <3>2, <3>3, <3>4 DEF EnclaveServes, Early
      <3>6. ~Bootstrap(Loaded).crashed
        BY DEF Bootstrap, Loaded, Reads, Empty, Zero
      <3>7. e.crashed => Failed(c, k)
        BY <3>4, <3>5, <3>6 DEF EnclaveFits
      <3>8. Failed(c, k) => LuaErrors /\ Unfinished(cur)
        <4>1. k \in Nat
          BY <3>2, <3>3, DoneType
        <4> QED BY <3>3, <3>4, <4>1 DEF Failed, Unfinished, Done, ClientState
      <3> QED BY <3>1, <3>3, <3>7, <3>8 DEF Current
    <2> QED BY <2>1, <2>2
  <1> QED BY <1>1, ProtocolHolds, TypeCorrect, EnclavesNeverLeak, PTL

-----------------------------------------------------------------------------
(* Without Lua errors the two ends stay together.                          *)

\* What the next read of a client at c.pc, of the server at p, expects.
DownFits(c, m) ==
  \/ c.pc = "spk" /\ m.t = "spk"
  \/ c.pc \in {"half1", "half2"} /\ m.t = "box"
  \/ c.pc = "response" /\ m.t = "pkt" /\ m.what = "result"
  \/ c.pc = "timers" /\ m.t = "pkt" /\ m.what = "timers"

NextFitsAt(p, m) ==
  /\ p \in {"mode", "count"} => m.t = "num"
  /\ p = "key" => m.t = "cpk"
  /\ p = "module" => m.t = "pkt" /\ m.what = "module"
  /\ p = "code" => m.t = "pkt" /\ m.what = "code"

LEMMA DownInSync ==
  ASSUME ~LuaErrors, NEW s, NEW c \in ClientState, NEW u \in Seq(UpUnit),
         NEW d \in Seq(DownUnit), NEW p \in Place, NEW k \in Nat, NEW em, NEW e, NEW files,
         LiveFits(s, c, u, d, p, k, em, e, files), d # <<>>
  PROVE  DownFits(c, Head(d))
  <1>1. CASE p \in Setup
    <2>1. c.mode = 1 /\ Shakes(s, c, d, p, e)
      BY <1>1 DEF LiveFits, Starts
    <2>2. \/ c.pc = "spk" /\ d = <<TheServerKey(e.spk), Half(s, e), Half(s, e)>>
          \/ c.pc = "half1" /\ d = <<Half(s, e), Half(s, e)>>
          \/ c.pc = "half2" /\ d = <<Half(s, e)>>
      BY <1>1, <2>1 DEF Shakes, Early, Setup
    <2> QED BY <2>2 DEF DownFits, Half, TheServerKey
  <1>2. CASE p \in Serving
    <2>1. \/ c.pc = "response" /\ d \in {<<m>> : m \in Results(s, c)}
          \/ c.pc = "response" /\ d \in {<<m, Timers>> : m \in Results(s, c)}
          \/ c.pc = "timers" /\ d = <<Timers>>
      BY <1>2 DEF LiveFits, Turn, Failed
    <2> QED BY <2>1 DEF DownFits, Results, Timers, Text
  <1> QED BY <1>1, <1>2 DEF LiveFits, Place

LEMMA UpInSync ==
  ASSUME NEW s, NEW c \in ClientState, NEW u \in Seq(UpUnit), NEW p, NEW k \in Nat, NEW em,
         NEW files, NEW gone, UpFits(s, c, u, p, k, em, files, gone), u # <<>>
  PROVE  NextFitsAt(p, Head(u))
  <1> DEFINE i == Reading(c, p)
             m == Head(u)
  <1>1. CASE p \in {"mode", "count", "key", "module", "code"}
    <2>1. Line(s, c, u, i, s \in gone) /\ i \in Nat
      BY <1>1, Places DEF UpFits
    <2>2. m = u[1] /\ 1 \in 1..Len(u) /\ i + 1 - 1 = i
      BY <2>1
    <2>3. m = Unit(s, c, i) \/ CutOf(m, Unit(s, c, i))
      <3> HIDE DEF m, i
      <3> QED BY <2>1, <2>2 DEF Line
    <2>4. p = "key" => c.mode = 1
      BY <1>1 DEF UpFits
    <2>5. p = "module" => c.module
      BY <1>1 DEF UpFits
    <2>6. /\ CountAt(c) \in Nat /\ CountAt(c) >= 1 /\ CodeAt(c) \in Nat
          /\ CodeAt(c) > CountAt(c)
          /\ c.mode = 1 => CountAt(c) = 2
          /\ c.module => CodeAt(c) = CountAt(c) + 3
      BY Places
    <2>7. /\ p = "mode" => i = 0
          /\ p = "key" => i = 1
          /\ p = "count" => i = CountAt(c)
          /\ p = "module" => i = CountAt(c) + 1
          /\ p = "code" => i = CodeAt(c)
      BY DEF Reading, Early
    <2>8. /\ p = "mode" => Unit(s, c, i) = TheInt(c.mode)
          /\ p = "key" => Unit(s, c, i) = TheClientKey(s)
          /\ p = "count" => Unit(s, c, i) = TheInt(IF c.module THEN 1 ELSE 0)
          /\ p = "module" => Unit(s, c, i) = Text("module", ModuleOf(s), c.key)
          /\ p = "code" => Unit(s, c, i) = Code(s, c)
      <3> HIDE DEF i
      <3>1. /\ p = "key" => i # 0 /\ i # CountAt(c) /\ i # CodeAt(c)
            /\ p = "count" => i # 0
            /\ p = "module" => i # 0 /\ i # CountAt(c) /\ i # CodeAt(c) /\ i # 1
            /\ p = "code" => i # 0 /\ i # CountAt(c)
        BY <2>4, <2>5, <2>6, <2>7
      <3> QED BY <2>7, <3>1 DEF Unit
    <2> HIDE DEF m, i
    <2>9. /\ p \in {"mode", "count"} => Unit(s, c, i).t = "num"
          /\ p = "key" => Unit(s, c, i).t = "cpk"
          /\ p = "module" => Unit(s, c, i).t = "pkt" /\ Unit(s, c, i).what = "module"
          /\ p = "code" => Unit(s, c, i).t = "pkt" /\ Unit(s, c, i).what = "code"
      BY <2>8 DEF TheInt, TheClientKey, Text, Code
    <2>10. CutOf(m, Unit(s, c, i)) =>
             m.t = "pkt" /\ Unit(s, c, i).t = "pkt" /\ m.what = Unit(s, c, i).what
      BY DEF CutOf, CutUnit
    <2>11. NextFitsAt(p, m)
      BY <1>1, <2>3, <2>9, <2>10 DEF NextFitsAt
    <2> QED BY <2>11 DEF m
  <1>2. CASE p \notin {"mode", "count", "key", "module", "code"}
    BY <1>2 DEF NextFitsAt
  <1> QED BY <1>1, <1>2

(***************************************************************************)
(* Unless a request raises an error, what waits for an end of the          *)
(* connection is what its next read expects (App.cpp, client.c: no unit    *)
(* carries its kind).                                                      *)
(***************************************************************************)
THEOREM EndsInSync ==
  ASSUME ~LuaErrors
  PROVE  Spec => []InSync
  <1>1. TypeOK /\ Protocol => InSync
    <2> SUFFICES ASSUME TypeOK, Protocol PROVE InSync
      OBVIOUS
    <2>1. ASSUME NEW s \in Sessions, s2c[s] # <<>>, s \notin fin
          PROVE  DownFits(cli[s], Head(s2c[s]))
      <3>1. up
        BY <2>1 DEF Protocol, Bereft
      <3>2. PICK c, u, d, p, k, em, e, files :
              /\ c = cli[s] /\ u = c2s[s] /\ d = s2c[s] /\ p = Srv(s) /\ k = Done(s)
              /\ em = encryption_mode /\ e = Current /\ files = disk
        OBVIOUS
      <3>3. /\ c \in ClientState /\ u \in Seq(UpUnit) /\ d \in Seq(DownUnit) /\ p \in Place
            /\ k \in Nat /\ LiveFits(s, c, u, d, p, k, em, e, files) /\ d # <<>>
        BY <2>1, <3>1, <3>2, Present, Streams, DoneType DEF StreamsType
      <3>4. DownFits(c, Head(d))
        BY <3>3, DownInSync
      <3> QED BY <3>2, <3>4
    <2>2. ASSUME c2s[cur] # <<>>, pc \in {"mode", "count", "key", "module", "code"}
          PROVE  NextFitsAt(pc, Head(c2s[cur]))
      <3>1. PICK c, u, k, em, files, gone :
              /\ c = cli[cur] /\ u = c2s[cur] /\ k = Done(cur) /\ em = encryption_mode
              /\ files = disk /\ gone = fin
        OBVIOUS
      <3>2. /\ c \in ClientState /\ u \in Seq(UpUnit) /\ k \in Nat
            /\ UpFits(cur, c, u, pc, k, em, files, gone)
        BY <2>2, <3>1, CurrentFits DEF Fits
      <3>3. NextFitsAt(pc, Head(u))
        BY <2>2, <3>1, <3>2, UpInSync
      <3> QED BY <3>1, <3>3
    <2> QED BY <2>1, <2>2 DEF InSync, DownFits, NextFitsAt
  <1> QED BY <1>1, ProtocolHolds, TypeCorrect, PTL

LEMMA NoneWaits ==
  ASSUME ~LuaErrors, NEW s, NEW c \in ClientState, NEW p \in Place, NEW k \in Nat, NEW em,
         NEW e, NEW files, LiveFits(s, c, <<>>, <<>>, p, k, em, e, files),
         p \in {"mode", "key", "count", "module", "code"}
  PROVE  c.pc \notin {"spk", "half1", "half2", "response", "timers"}
  <1>1. CASE p = "code"
    <2>1. \/ c.pc = "ready"
          \/ c.pc = "timers" /\ Failed(c, k)
          \/ c.pc = "response" /\ Failed(c, k)
      BY <1>1 DEF LiveFits, Serving, Turn
    <2> QED BY <2>1 DEF Failed
  <1>2. CASE p # "code"
    <2>1. /\ Reading(c, p) = Written(c) /\ Written(c) \in Nat
          /\ p = "module" => c.module
      BY <1>2, Places DEF LiveFits, Setup, Starts
    <2>2. /\ CountAt(c) \in Nat /\ CountAt(c) >= 1 /\ CodeAt(c) \in Nat
          /\ CodeAt(c) > CountAt(c)
          /\ c.mode = 1 => CountAt(c) = 2
          /\ c.module => CodeAt(c) = CountAt(c) + 3
      BY Places
    <2>3. /\ p = "mode" => Written(c) = 0
          /\ p = "key" => Written(c) = 1 /\ c.mode = 1
          /\ p = "count" => Written(c) = CountAt(c)
          /\ p = "module" => Written(c) = CountAt(c) + 1
      BY <2>1 DEF Reading, Early, LiveFits
    <2>4. Written(c) < CodeAt(c)
      BY <1>2, <2>1, <2>2, <2>3
    <2>5. c.pc \notin {"response", "timers"}
      <3>1. c.pc = "response" => Written(c) = CodeAt(c) + 1
        BY DEF Written
      <3>2. c.pc = "timers" => Written(c) = CodeAt(c)
        BY DEF Written
      <3> QED BY <2>2, <2>4, <3>1, <3>2
    <2>6. ASSUME c.pc \in {"spk", "half1", "half2"} PROVE FALSE
      <3>1. Written(c) = 2 /\ c.mode = 1
        BY <2>6 DEF Written, LiveFits
      <3>2. p \in {"count", "module"}
        BY <1>2, <2>3, <3>1
      <3>3. Shakes(s, c, <<>>, p, e)
        BY <3>1 DEF LiveFits
      <3> QED BY <2>6, <3>2, <3>3 DEF Shakes
    <2> QED BY <2>5, <2>6
  <1> QED BY <1>1, <1>2

(***************************************************************************)
(* Unless a request raises an error, the server and the client it serves   *)
(* never wait for each other (the request loop and offload).               *)
(***************************************************************************)
THEOREM NoDeadlock ==
  ASSUME ~LuaErrors
  PROVE  Spec => []NoMutualWait
  <1>1. TypeOK /\ Protocol => NoMutualWait
    <2> SUFFICES ASSUME TypeOK, Protocol, up, cur \notin fin,
                        pc \in {"mode", "key", "count", "module", "code"},
                        c2s[cur] = <<>>, s2c[cur] = <<>>
                 PROVE  cli[cur].pc \notin {"spk", "half1", "half2", "response", "timers"}
      BY DEF NoMutualWait
    <2>1. PICK c, k, em, e, files :
            /\ c = cli[cur] /\ k = Done(cur) /\ em = encryption_mode /\ e = Current
            /\ files = disk
      OBVIOUS
    <2>2. /\ c \in ClientState /\ pc \in Place /\ k \in Nat
          /\ LiveFits(cur, c, <<>>, <<>>, pc, k, em, e, files)
      BY <2>1, CurrentFits DEF Fits
    <2> QED BY <2>1, <2>2, NoneWaits
  <1> QED BY <1>1, ProtocolHolds, TypeCorrect, PTL

-----------------------------------------------------------------------------
(* The order of requests.                                                  *)

LEMMA DeliveredInOrder ==
  ASSUME TypeOK, Protocol, NEW e, NEW packet, pc = "exec", disk.code.out # <<>>,
         Deliver(e, packet)
  PROVE  LET r == ran'[Len(ran')]
         IN  /\ r.s = cur
             /\ r.n = 1 + Cardinality({i \in 1..Len(ran) : ran[i].s = r.s})
  <1>1. /\ UpFits(cur, cli[cur], c2s[cur], "exec", Done(cur), encryption_mode, disk, fin)
        /\ Done(cur) \in Nat
    BY CurrentFits DEF Fits
  <1>2. disk.code.out = <<CallOf(cur, cli[cur])>> /\ cli[cur].calls = Done(cur) + 1
    BY <1>1 DEF UpFits
  <1>3. Head(disk.code.out) = CallOf(cur, cli[cur])
    BY <1>2
  <1>4. ran' = Append(ran, CallOf(cur, cli[cur])) /\ ran \in Seq(Request)
    BY <1>3 DEF Deliver, TypeOK, ServerTypeOK
  <1>5. ran'[Len(ran')] = CallOf(cur, cli[cur])
    BY <1>4
  <1>6. CallOf(cur, cli[cur]).s = cur /\ CallOf(cur, cli[cur]).n = 1 + Done(cur)
    BY <1>1, <1>2 DEF CallOf, RequestOf
  <1> QED BY <1>5, <1>6 DEF Done

(***************************************************************************)
(* Wherever clients die and whatever their requests raise, a request is    *)
(* executed once, after every earlier call of its session, and for the     *)
(* session being served.                                                   *)
(***************************************************************************)
THEOREM ExecutedInOrder == Spec => RanInOrder
  <1> DEFINE InOrder == LET r == ran'[Len(ran')]
                        IN  /\ r.s = cur
                            /\ r.n = 1 + Cardinality({i \in 1..Len(ran) : ran[i].s = r.s})
  <1>1. TypeOK /\ Protocol /\ [Next]_vars => [ran' # ran => InOrder]_ran
    <2> SUFFICES ASSUME TypeOK, Protocol, [Next]_vars, ran' # ran PROVE InOrder
      OBVIOUS
    <2>1. ServerNext
      BY DEF Next, Step, Kill, Terminated, vars, server
    <2>2. Execute \/ ExecuteOnHost
      BY <2>1 DEF ServerNext, ServerStep, Accept, RecvMode, UnknownMode, Handshake, KeysLost,
                  RecvCount, RecvModule, ModuleMissing, Spin, RecvCode, UnsetLength,
                  EndSession, ExecuteFails, HostError, ResultLost, TimersLost, SendTimers,
                  DieWriting, Die, StartRequest
    <2>3. pc = "exec" /\ disk.code.out # <<>> /\ \E e, packet : Deliver(e, packet)
      BY <2>2, Zenon DEF Execute, ExecuteOnHost, Runs
    <2> QED BY <2>3, DeliveredInOrder
  <1> QED BY <1>1, ProtocolHolds, TypeCorrect, PTL DEF Spec, RanInOrder

-----------------------------------------------------------------------------
(* The calls of both ends.                                                 *)

\* What a step of a client does to its calls: nothing, a call, or a reply.
Quiet(c, c1) ==
  /\ c1.calls = c.calls /\ c1.got = c.got
  /\ c1.module = c.module \/ (c.pc = "idle" /\ up)
  /\ c1.pc = "closed" \/ (c.pc # "response" /\ c1.pc # "response")
Calling(c, c1) ==
  /\ c.pc = "ready" /\ c1.pc = "response"
  /\ c1.calls = c.calls + 1 /\ c1.got = c.got /\ c1.module = c.module
Replied(c, c1, reply) ==
  /\ c.pc = "response" /\ c1.pc = "timers"
  /\ c1.calls = c.calls /\ c1.got = Append(c.got, reply) /\ c1.module = c.module
Heard(s, c, c1) ==
  \E reply : /\ Replied(c, c1, reply)
             /\ \/ s2c[s] # <<>> /\ reply = View(Head(s2c[s]), c.key)
                \/ ~up /\ reply = Lost

LEMMA CallsMove ==
  ASSUME StreamsType, NEW s \in Sessions, ClientAct(s)
  PROVE  Quiet(cli[s], cli'[s]) \/ Calling(cli[s], cli'[s]) \/ Heard(s, cli[s], cli'[s])
  <1>1. PICK c, c1 : c = cli[s] /\ c1 = cli'[s]
    OBVIOUS
  <1>2. c \in ClientState
    BY <1>1 DEF StreamsType
  <1> SUFFICES Quiet(c, c1) \/ Calling(c, c1) \/ Heard(s, c, c1)
    BY <1>1, Zenon
  <1>3. ASSUME NEW q, c1 = [c EXCEPT !.pc = q],
               q = "closed" \/ (c.pc # "response" /\ q # "response")
        PROVE  Quiet(c, c1)
    BY <1>2, <1>3 DEF Quiet, ClientState
  <1>a. CASE Connect(s)
    <2>1. \E m \in Modes, mod \in BOOLEAN :
            /\ cli'[s] = [cli[s] EXCEPT !.pc = IF m = 1 THEN "handshake" ELSE "count",
                                        !.mode = m, !.module = mod]
            /\ c2s'[s] = Append(c2s[s], TheInt(m))
      BY <1>a, ConnectMoves, Zenon
    <2>2. PICK m, mod, q : /\ c1 = [c EXCEPT !.pc = q, !.mode = m, !.module = mod]
                           /\ q = IF m = 1 THEN "handshake" ELSE "count"
      BY <1>1, <2>1, Zenon
    <2>3. q # "response" /\ c.pc = "idle" /\ up
      BY <1>a, <1>1, <2>2 DEF Connect
    <2> QED BY <1>2, <2>2, <2>3 DEF Quiet, ClientState
  <1>b. CASE SendPublicKey(s)
    <2>1. c1 = [c EXCEPT !.pc = "spk"] /\ c.pc = "handshake"
      BY <1>b, <1>1, HandshakeMoves, Zenon DEF SendPublicKey
    <2> QED BY <1>3, <2>1
  <1>c. CASE RecvServerKey(s)
    <2>1. PICK k : c1 = [c EXCEPT !.pc = "half1", !.spk = k] \/ c1 = [c EXCEPT !.pc = "half1"]
      BY <1>c, <1>1, HandshakeMoves, Zenon
    <2>2. c.pc = "spk"
      BY <1>c, <1>1 DEF RecvServerKey
    <2> QED BY <1>2, <2>1, <2>2 DEF Quiet, ClientState
  <1>d. CASE RecvHalf(s)
    <2>1. PICK k, h : \/ cli' = [cli EXCEPT ![s].pc = "half2", ![s].half = h]
                      \/ cli' = [cli EXCEPT ![s].pc = "count", ![s].key = k]
      BY <1>d, Zenon DEF RecvHalf
    <2>2. c.pc \in {"half1", "half2"}
      BY <1>d, <1>1 DEF RecvHalf
    <2>3. c1 = [c EXCEPT !.pc = "half2", !.half = h] \/ c1 = [c EXCEPT !.pc = "count", !.key = k]
      BY <1>1, <2>1 DEF StreamsType
    <2> QED BY <1>2, <2>2, <2>3 DEF Quiet, ClientState
  <1>e. CASE SendModules(s)
    <2>1. PICK q : /\ q = IF cli[s].pc = "count" THEN IF cli[s].module THEN "file" ELSE "ready"
                          ELSE IF cli[s].pc = "file" THEN "name" ELSE "ready"
                   /\ cli'[s] = [cli[s] EXCEPT !.pc = q]
      BY <1>e, UploadMoves, Zenon
    <2>2. q # "response" /\ c.pc # "response"
      BY <1>e, <1>1, <2>1 DEF SendModules
    <2> QED BY <1>1, <1>3, <2>1, <2>2
  <1>f. CASE Call(s)
    <2>1. c.pc = "ready"
      BY <1>f, <1>1 DEF Call
    <2>2. \/ c1 = [c EXCEPT !.pc = "response", !.calls = @ + 1]
          \/ c1 = [c EXCEPT !.pc = "timers"]
      BY <1>f, <1>1, CallMoves, Zenon
    <2>3. CASE c1 = [c EXCEPT !.pc = "response", !.calls = @ + 1]
      BY <1>2, <2>1, <2>3 DEF Calling, ClientState
    <2>4. CASE c1 = [c EXCEPT !.pc = "timers"]
      BY <1>3, <2>1, <2>4
    <2> QED BY <2>2, <2>3, <2>4
  <1>g. CASE RecvResponse(s)
    <2>1. PICK r : /\ c1 = [c EXCEPT !.pc = "timers", !.got = Append(@, r)]
                   /\ \/ s2c[s] # <<>> /\ r = View(Head(s2c[s]), c.key)
                      \/ ~up /\ r = Lost
      BY <1>g, <1>1, ResponseMoves, Zenon DEF EofDown
    <2>2. c.pc = "response"
      BY <1>g, <1>1 DEF RecvResponse
    <2>3. PICK g : g = Append(c.got, r)
      OBVIOUS
    <2>4. c1.pc = "timers" /\ c1.got = g /\ c1.calls = c.calls /\ c1.module = c.module
      BY <1>2, <2>1, <2>3 DEF ClientState
    <2>5. Replied(c, c1, r)
      BY <2>2, <2>3, <2>4 DEF Replied
    <2> QED BY <2>1, <2>5, Zenon DEF Heard
  <1>h. CASE RecvTimers(s)
    <2>1. PICK q : /\ q = IF Sends(cli[s].mode) THEN "ready" ELSE "closed"
                   /\ c1 = [c EXCEPT !.pc = q]
      BY <1>h, <1>1, TimersMoves, Zenon
    <2>2. q # "response" /\ c.pc = "timers"
      BY <1>h, <1>1, <2>1 DEF RecvTimers
    <2> QED BY <1>3, <2>1, <2>2
  <1>i. CASE Leave(s) \/ CrashConnecting(s)
    <2>1. c1 = [c EXCEPT !.pc = "closed"]
      BY <1>i, <1>1, LeaveMoves, Zenon
    <2> QED BY <1>3, <2>1
  <1>j. CASE Close(s) \/ Fail(s) \/ Kill(s)
    BY <1>i, <1>j DEF Close, Fail, Kill, Crash
  <1> QED BY <1>a, <1>b, <1>c, <1>d, <1>e, <1>f, <1>g, <1>h, <1>j
          DEF ClientAct, Step, ClientStep

\* The calls of s, for a client's record c and the executed requests' numbers.
RanOf(s) == {ran[i].n : i \in {j \in 1..Len(ran) : ran[j].s = s}}
Accounted(s, c, k) ==
  /\ c.calls \in {Len(c.got), Len(c.got) + 1}
  /\ c.pc # "closed" => (c.pc = "response" <=> c.calls = Len(c.got) + 1)
  /\ \A n \in 1..Len(c.got) : c.got[n] \in Own(s, c, n) => n <= k

LEMMA AccountedByPart ==
  CallsAccounted <=> \A s \in Sessions : Accounted(s, cli[s], Done(s)) /\ RanOf(s) = 1..Done(s)
  BY DEF CallsAccounted, Accounted, RanOf

LEMMA IdleEmpty ==
  ASSUME TypeOK, Protocol, NEW s \in Sessions, cli[s].pc = "idle", up
  PROVE  cli[s].got = <<>>
  <1>1. s \notin fin
    BY DEF Protocol, Ended
  <1>2. LiveFits(s, cli[s], c2s[s], s2c[s], Srv(s), Done(s), encryption_mode, Current, disk)
    BY <1>1, Present, Zenon
  <1> QED BY <1>2 DEF LiveFits

LEMMA ClientAccounted ==
  ASSUME TypeOK, TypeOK', Protocol, CallsAccounted, NEW s \in Sessions, ClientAct(s)
  PROVE  CallsAccounted'
  <1>1. UNCHANGED server /\ OnlyOf(s) /\ cli[s].pc # "closed"
    BY ClientFrame
  <1>2. ran' = ran /\ \A r : Done(r)' = Done(r) /\ RanOf(r)' = RanOf(r)
    BY <1>1 DEF server, Done, RanOf
  <1>3. ASSUME NEW r \in Sessions, r # s PROVE Accounted(r, cli'[r], Done(r)) 
    BY <1>1, <1>3, AccountedByPart DEF OnlyOf
  <1>4. Accounted(s, cli'[s], Done(s))
    <2>1. PICK c, c1, k : c = cli[s] /\ c1 = cli'[s] /\ k = Done(s)
      OBVIOUS
    <2> SUFFICES Accounted(s, c1, k)
      BY <2>1, Zenon
    <2>2. c \in ClientState /\ c1 \in ClientState /\ k \in Nat /\ c.pc # "closed"
      BY <1>1, <2>1, DoneType DEF TypeOK, ClientTypeOK
    <2>3. /\ c.got \in Seq(Reply) /\ Len(c.got) \in Nat /\ c.calls \in Nat
          /\ c1.got \in Seq(Reply) /\ Len(c1.got) \in Nat
      BY <2>2 DEF ClientState
    <2>4. Accounted(s, c, k)
      BY <2>1, AccountedByPart
    <2>5. Quiet(c, c1) \/ Calling(c, c1) \/ Heard(s, c, c1)
      BY <2>1, CallsMove, Streams, Zenon
    <2>6. CASE Quiet(c, c1)
      <3>1. c.pc = "idle" /\ up => c.got = <<>>
        BY <2>1, IdleEmpty
      <3>2. \A n \in 1..Len(c.got) : Own(s, c1, n) = Own(s, c, n)
        <4>1. c1.module = c.module => \A n : Own(s, c1, n) = Own(s, c, n)
          BY DEF Own
        <4> QED BY <2>3, <2>6, <3>1, <4>1 DEF Quiet
      <3> QED BY <2>2, <2>3, <2>4, <2>6, <3>2 DEF Quiet, Accounted
    <2>7. CASE Calling(c, c1)
      <3>1. \A n \in 1..Len(c.got) : Own(s, c1, n) = Own(s, c, n)
        BY <2>7 DEF Calling, Own
      <3> QED BY <2>2, <2>3, <2>4, <2>7, <3>1 DEF Calling, Accounted
    <2>8. CASE Heard(s, c, c1)
      <3>1. PICK reply : /\ Replied(c, c1, reply)
                         /\ \/ s2c[s] # <<>> /\ reply = View(Head(s2c[s]), c.key)
                            \/ ~up /\ reply = Lost
        BY <2>8, Zenon DEF Heard
      <3> DEFINE m == Len(c.got) + 1
      <3>2. /\ c1.got = Append(c.got, reply) /\ Len(c1.got) = m /\ c1.got[m] = reply
            /\ \A n \in 1..Len(c.got) : c1.got[n] = c.got[n]
            /\ c1.calls = c.calls /\ c.calls = m /\ c1.pc = "timers"
        BY <2>2, <2>3, <2>4, <3>1 DEF Replied, Accounted
      <3>3. \A n : Own(s, c1, n) = Own(s, c, n)
        BY <3>1 DEF Replied, Own
      <3>4. reply \in Own(s, c, m) => m <= k
        <4> SUFFICES ASSUME reply \in Own(s, c, m) PROVE m <= k
          OBVIOUS
        <4>1. reply # Lost
          BY DEF Own, Lost
        <4>2. s2c[s] # <<>> /\ reply = View(Head(s2c[s]), c.key)
          BY <3>1, <4>1
        <4>3. s \notin fin
          BY <1>1 DEF Protocol, Ended
        <4>4. up
          BY <4>2, <4>3 DEF Protocol, Bereft
        <4>5. /\ LiveFits(s, c, c2s[s], s2c[s], Srv(s), k, encryption_mode, Current, disk)
              /\ Srv(s) \in Place
          BY <2>1, <4>3, <4>4, Present
        <4>6. \/ c.calls = k
              \/ s2c[s] = <<Timers>>
          BY <2>2, <3>1, <4>2, <4>5, ResultWaits DEF Replied
        <4>7. s2c[s] # <<Timers>>
          <5> SUFFICES ASSUME s2c[s] = <<Timers>> PROVE FALSE
            OBVIOUS
          <5>1. Head(s2c[s]) = Timers
            OBVIOUS
          <5>2. reply.what = "timers"
            BY <4>2, <5>1 DEF View, Timers, Text
          <5> QED BY <5>2 DEF Own
        <4> QED BY <2>2, <3>2, <4>6, <4>7
      <3> HIDE DEF m
      <3>5. \A n \in 1..Len(c1.got) : c1.got[n] \in Own(s, c1, n) => n <= k
        <4> SUFFICES ASSUME NEW n \in 1..Len(c1.got), c1.got[n] \in Own(s, c1, n) PROVE n <= k
          OBVIOUS
        <4>1. n = m \/ n \in 1..Len(c.got)
          BY <2>3, <3>2 DEF m
        <4> QED BY <2>4, <3>2, <3>3, <3>4, <4>1 DEF Accounted
      <3>6. Len(c1.got) = m /\ c1.calls = m /\ c1.pc = "timers" /\ m \in Nat
        BY <2>3, <3>2 DEF m
      <3> QED BY <3>5, <3>6 DEF Accounted
    <2> QED BY <2>5, <2>6, <2>7, <2>8
  <1>5. \A r \in Sessions : Accounted(r, cli'[r], Done(r)') /\ RanOf(r)' = 1..Done(r)'
    BY <1>2, <1>3, <1>4, AccountedByPart
  <1> QED BY <1>5 DEF CallsAccounted, Accounted, RanOf

\* What a step of the server does to the requests executed: nothing, perhaps as it
\* dies, or the present call of the session it serves is one more.
RunsNext == /\ up /\ up' = up /\ cur \in Sessions
         /\ ran' = Append(ran, CallOf(cur, cli[cur]))
         /\ cli[cur].calls = Done(cur) + 1

LEMMA RanMoves ==
  ASSUME TypeOK, Protocol, ServerNext
  PROVE  cli' = cli /\ ((ran' = ran /\ (up' = up \/ up' = FALSE)) \/ RunsNext)
  <1>1. cli' = cli
    BY DEF ServerNext
  <1>2. CASE Execute \/ ExecuteOnHost
    <2>1. pc = "exec" /\ disk.code.out # <<>> /\ \E e, packet : Deliver(e, packet)
      BY <1>2, Zenon DEF Execute, ExecuteOnHost, Runs
    <2>2. ran' = Append(ran, Head(disk.code.out)) /\ up' = up
      BY <2>1 DEF Deliver
    <2>3. /\ UpFits(cur, cli[cur], c2s[cur], "exec", Done(cur), encryption_mode, disk, fin)
          /\ up /\ cur \in Sessions
      BY <2>1, CurrentFits DEF Fits
    <2>4. disk.code.out = <<CallOf(cur, cli[cur])>> /\ cli[cur].calls = Done(cur) + 1
      BY <2>1, <2>3 DEF UpFits
    <2>5. Head(disk.code.out) = CallOf(cur, cli[cur])
      BY <2>4
    <2> QED BY <1>1, <2>2, <2>3, <2>4, <2>5 DEF RunsNext
  <1>3. CASE ~(Execute \/ ExecuteOnHost)
    <2>1. ran' = ran /\ (up' = up \/ up' = FALSE)
      BY <1>3 DEF ServerNext, ServerStep, Accept, RecvMode, UnknownMode, Handshake, KeysLost,
                  RecvCount, RecvModule, ModuleMissing, Spin, RecvCode, UnsetLength,
                  EndSession, ExecuteFails, HostError, ResultLost, TimersLost, SendTimers,
                  DieWriting, Die, StartRequest, wire
    <2> QED BY <1>1, <2>1
  <1> QED BY <1>2, <1>3

LEMMA RanOfGrows ==
  ASSUME TypeOK, NEW r \in Request, ran' = Append(ran, r), NEW q
  PROVE  RanOf(q)' = IF r.s = q THEN RanOf(q) \union {r.n} ELSE RanOf(q)
  <1> DEFINE m == Len(ran)
  <1>1. /\ m \in Nat /\ Len(ran') = m + 1 /\ ran'[m + 1] = r
        /\ \A i \in 1..m : ran'[i] = ran[i]
    BY DEF TypeOK, ServerTypeOK
  <1> HIDE DEF m
  <1>2. 1..Len(ran') = (1..m) \union {m + 1}
    BY <1>1
  <1>3. RanOf(q)' = {ran'[i].n : i \in {j \in (1..m) \union {m + 1} : ran'[j].s = q}}
    BY <1>2 DEF RanOf
  <1>4. RanOf(q) = {ran[i].n : i \in {j \in 1..m : ran[j].s = q}}
    BY DEF RanOf, m
  <1> QED BY <1>1, <1>3, <1>4

LEMMA StillAccounted ==
  ASSUME CallsAccounted, cli' = cli, ran' = ran
  PROVE  CallsAccounted'
  <1>1. \A s \in Sessions : Done(s)' = Done(s) /\ RanOf(s)' = RanOf(s)
    BY DEF Done, RanOf
  <1>2. \A s \in Sessions : Accounted(s, cli'[s], Done(s)') /\ RanOf(s)' = 1..Done(s)'
    BY <1>1, AccountedByPart
  <1> QED BY <1>2 DEF CallsAccounted, Accounted, RanOf

LEMMA ServerAccounted ==
  ASSUME TypeOK, Protocol, CallsAccounted, ServerNext
  PROVE  CallsAccounted'
  <1>1. CASE cli' = cli /\ ran' = ran
    BY <1>1, StillAccounted
  <1>2. CASE cli' = cli /\ RunsNext
    <2> DEFINE r == CallOf(cur, cli[cur])
    <2>1. r \in Request /\ r.s = cur /\ r.n = Done(cur) + 1
      BY <1>2 DEF RunsNext, CallOf, RequestOf, Request, TypeOK, ClientTypeOK, ClientState
    <2>2. ran' = Append(ran, r)
      BY <1>2 DEF RunsNext
    <2> HIDE DEF r
    <2>3. ASSUME NEW s \in Sessions
          PROVE  Accounted(s, cli'[s], Done(s)') /\ RanOf(s)' = 1..Done(s)'
      <3>1. Accounted(s, cli[s], Done(s)) /\ RanOf(s) = 1..Done(s) /\ Done(s) \in Nat
        BY AccountedByPart, DoneType
      <3>2. Done(s)' = IF r.s = s THEN Done(s) + 1 ELSE Done(s)
        BY <2>1, <2>2, DoneGrows
      <3>3. RanOf(s)' = IF r.s = s THEN RanOf(s) \union {r.n} ELSE RanOf(s)
        BY <2>1, <2>2, RanOfGrows
      <3>4. CASE s = cur
        <4>1. RanOf(s)' = (1..Done(s)) \union {Done(s) + 1} /\ Done(s)' = Done(s) + 1
          BY <2>1, <3>1, <3>2, <3>3, <3>4
        <4>2. RanOf(s)' = 1..Done(s)'
          BY <3>1, <4>1
        <4>3. Len(cli[s].got) \in Nat
          BY DEF TypeOK, ClientTypeOK, ClientState
        <4> QED BY <1>2, <3>1, <4>1, <4>2, <4>3 DEF Accounted
      <3>5. CASE s # cur
        BY <1>2, <2>1, <3>1, <3>2, <3>3, <3>5
      <3> QED BY <3>4, <3>5
    <2> QED BY <2>3 DEF CallsAccounted, Accounted, RanOf
  <1> QED BY <1>1, <1>2, RanMoves

LEMMA InitAccounted == Init => CallsAccounted
  <1> SUFFICES ASSUME Init, NEW s \in Sessions
               PROVE  Accounted(s, cli[s], Done(s)) /\ RanOf(s) = 1..Done(s)
    BY AccountedByPart
  <1>1. /\ cli[s].calls = 0 /\ cli[s].got = <<>> /\ cli[s].pc = "idle"
    BY DEF Init, ClientInit
  <1>2. ran = <<>>
    BY DEF Init, ServerInit
  <1>3. Done(s) = 0
    BY <1>2, FS_EmptySet DEF Done
  <1>4. RanOf(s) = {}
    BY <1>2 DEF RanOf
  <1> QED BY <1>1, <1>3, <1>4 DEF Accounted

(***************************************************************************)
(* Client and server agree on the calls wherever clients die and whatever  *)
(* requests raise: one call at a time, the executed requests of a session  *)
(* are its first ones, and no output of an unexecuted call is ever held    *)
(* (offload, lclient.lua:103; the request loop, App.cpp:171-206).          *)
(***************************************************************************)
THEOREM CallsAgree == Spec => []CallsAccounted
  <1>1. TypeOK /\ TypeOK' /\ Protocol /\ CallsAccounted /\ [Next]_vars => CallsAccounted'
    <2> SUFFICES ASSUME TypeOK, TypeOK', Protocol, CallsAccounted, [Next]_vars
                 PROVE  CallsAccounted'
      OBVIOUS
    <2>1. CASE UNCHANGED <<cli, ran>>
      BY <2>1, StillAccounted
    <2>2. CASE UNCHANGED vars \/ Terminated
      BY <2>1, <2>2 DEF vars, server, Terminated
    <2>3. CASE \E s \in Sessions : ClientAct(s)
      BY <2>3, ClientAccounted
    <2>4. CASE ServerNext
      BY <2>4, ServerAccounted
    <2> QED BY <2>2, <2>3, <2>4 DEF Next, ClientAct
  <1> QED BY <1>1, InitAccounted, ProtocolHolds, TypeCorrect, PTL DEF Spec

-----------------------------------------------------------------------------
(* The system implements RemoteCalls.                                      *)

AbsCalls == [s \in Sessions |-> cli[s].calls]
AbsRan == [i \in 1..Len(ran) |-> <<ran[i].s, ran[i].n>>]
Values(s) == [n \in 1..Len(Replies(s)) |-> Returned(s, n)]
AbsReturned == [s \in Sessions |-> Values(s)]
AbsVars == <<AbsCalls, AbsRan, AbsReturned, ~up>>

LEMMA Abstract ==
  /\ Calls!vars = AbsVars /\ Calls!vars' = AbsVars'
  /\ Calls!Init <=> /\ AbsCalls = [s \in Sessions |-> 0] /\ AbsRan = <<>>
                    /\ AbsReturned = [s \in Sessions |-> <<>>] /\ (~up) = FALSE
  BY DEF AbsCalls, AbsRan, AbsReturned, AbsVars, Values, Calls!vars, Calls!Init

LEMMA AbstractCall ==
  ASSUME NEW s \in Sessions,
         AbsCalls[s] = Len(AbsReturned[s]),
         AbsCalls' = [AbsCalls EXCEPT ![s] = @ + 1],
         AbsRan' = AbsRan, AbsReturned' = AbsReturned, up' = up
  PROVE  Calls!Next
  <1>1. Calls!Call(s)
    BY DEF AbsCalls, AbsRan, AbsReturned, Values, Calls!Call
  <1> QED BY <1>1 DEF Calls!Next

LEMMA AbstractExecute ==
  ASSUME NEW s \in Sessions, up,
         Len(AbsReturned[s]) < AbsCalls[s],
         \A i \in 1..Len(AbsRan) : AbsRan[i] # <<s, AbsCalls[s]>>,
         AbsRan' = Append(AbsRan, <<s, AbsCalls[s]>>),
         AbsCalls' = AbsCalls, AbsReturned' = AbsReturned, up' = up
  PROVE  Calls!Next
  <1>1. Calls!Execute(s)
    BY DEF AbsCalls, AbsRan, AbsReturned, Values, Calls!Execute, Calls!Executed
  <1> QED BY <1>1 DEF Calls!Next

LEMMA AbstractReturn ==
  ASSUME NEW s \in Sessions, NEW value,
         Len(AbsReturned[s]) < AbsCalls[s],
         \/ ~up /\ value = <<>>
         \/ value = <<s, AbsCalls[s]>> /\ \E i \in 1..Len(AbsRan) : AbsRan[i] = <<s, AbsCalls[s]>>,
         AbsReturned' = [AbsReturned EXCEPT ![s] = Append(@, value)],
         AbsCalls' = AbsCalls, AbsRan' = AbsRan, up' = up
  PROVE  Calls!Next
  <1>1. Calls!Return(s)
    <2>1. value \in {<<s, AbsCalls[s]>>, <<>>}
      OBVIOUS
    <2>2. value # <<>> => \E i \in 1..Len(AbsRan) : AbsRan[i] = <<s, AbsCalls[s]>>
      OBVIOUS
    <2>3. value = <<>> => ~up
      OBVIOUS
    <2> QED BY <2>1, <2>2, <2>3
            DEF AbsCalls, AbsRan, AbsReturned, Values, Calls!Return, Calls!Executed, Calls!Nothing
  <1> QED BY <1>1 DEF Calls!Next

LEMMA AbstractStop ==
  ASSUME up' = FALSE, AbsCalls' = AbsCalls, AbsRan' = AbsRan, AbsReturned' = AbsReturned
  PROVE  Calls!Next
  <1>1. Calls!Stop
    BY DEF AbsCalls, AbsRan, AbsReturned, Values, Calls!Stop
  <1> QED BY <1>1 DEF Calls!Next

\* The values a client's record c stands for.
Kept(got) ==
  IF got # <<>> /\ got[Len(got)] = TimersOnly THEN SubSeq(got, 1, Len(got) - 1) ELSE got
ValueOf(s, c, n) ==
  LET reply == Kept(c.got)[n]
  IN  IF reply = Lost THEN <<>> ELSE IF reply \in Own(s, c, n) THEN <<s, n>> ELSE <<reply>>
ValuesOf(s, c) == [n \in 1..Len(Kept(c.got)) |-> ValueOf(s, c, n)]

LEMMA TheValues ==
  /\ AbsReturned = [s \in Sessions |-> ValuesOf(s, cli[s])]
  /\ AbsReturned' = [s \in Sessions |-> ValuesOf(s, cli'[s])]
  BY DEF AbsReturned, Values, ValuesOf, Returned, Replies, Kept, ValueOf

LEMMA ValuesStay ==
  ASSUME NEW s, NEW c, NEW c1, c1.got = c.got, c.got \in Seq(Reply),
         c1.module = c.module \/ c.got = <<>>
  PROVE  ValuesOf(s, c1) = ValuesOf(s, c)
  <1>1. CASE c1.module = c.module
    BY <1>1 DEF ValuesOf, ValueOf, Own
  <1>2. CASE c.got = <<>>
    <2>1. Kept(c.got) = <<>>
      BY <1>2 DEF Kept
    <2> QED BY <2>1 DEF ValuesOf
  <1> QED BY <1>1, <1>2

\* A reply that is not the timers is one value more.
LEMMA ValuesGrow ==
  ASSUME NEW s, NEW c, NEW c1, NEW reply \in Reply, c.got \in Seq(Reply),
         c1.got = Append(c.got, reply), c1.module = c.module,
         Kept(c.got) = c.got
  PROVE  /\ Len(ValuesOf(s, c)) = Len(c.got)
         /\ reply = TimersOnly => ValuesOf(s, c1) = ValuesOf(s, c)
         /\ reply # TimersOnly =>
              \A value : value = ValueOf(s, c1, Len(c.got) + 1) =>
                ValuesOf(s, c1) = Append(ValuesOf(s, c), value)
  <1> DEFINE m == Len(c.got)
  <1>1. /\ m \in Nat /\ c1.got # <<>> /\ Len(c1.got) = m + 1 /\ c1.got[m + 1] = reply
        /\ c1.got \in Seq(Reply)
        /\ \A n \in 1..m : c1.got[n] = c.got[n]
    OBVIOUS
  <1>2. \A n : Own(s, c1, n) = Own(s, c, n)
    BY DEF Own
  <1>3. Len(ValuesOf(s, c)) = m
    BY <1>1 DEF ValuesOf
  <1>4. ASSUME reply = TimersOnly PROVE ValuesOf(s, c1) = ValuesOf(s, c)
    <2>1. Kept(c1.got) = SubSeq(c1.got, 1, m)
      BY <1>1, <1>4 DEF Kept
    <2>2. SubSeq(c1.got, 1, m) = c.got
      BY <1>1
    <2> QED BY <1>2, <2>1, <2>2 DEF ValuesOf, ValueOf
  <1>5. ASSUME reply # TimersOnly, NEW value, value = ValueOf(s, c1, m + 1)
        PROVE  ValuesOf(s, c1) = Append(ValuesOf(s, c), value)
    <2>1. Kept(c1.got) = c1.got
      BY <1>1, <1>5 DEF Kept
    <2>2. ValuesOf(s, c1) = [n \in 1..(m + 1) |-> ValueOf(s, c1, n)]
      BY <1>1, <2>1 DEF ValuesOf
    <2>3. \A n \in 1..m : ValueOf(s, c1, n) = ValueOf(s, c, n)
      BY <1>1, <1>2, <2>1 DEF ValueOf
    <2>4. ValuesOf(s, c) = [n \in 1..m |-> ValueOf(s, c, n)]
      BY DEF ValuesOf
    <2>5. Append(ValuesOf(s, c), value) =
            [n \in 1..(m + 1) |-> IF n = m + 1 THEN value ELSE ValueOf(s, c, n)]
      BY <1>1, <2>4
    <2>6. \A n \in 1..(m + 1) :
            ValueOf(s, c1, n) = IF n = m + 1 THEN value ELSE ValueOf(s, c, n)
      BY <1>1, <1>5, <2>3
    <2> QED BY <2>2, <2>5, <2>6
  <1> QED BY <1>3, <1>4, <1>5

LEMMA NoTimersKept ==
  ASSUME TypeOK, Protocol, NEW s \in Sessions, cli[s].pc \notin {"timers", "closed"}
  PROVE  Kept(cli[s].got) = cli[s].got
  <1>1. cli[s].got # <<>> => Len(cli[s].got) \in 1..Len(cli[s].got)
    BY DEF TypeOK, ClientTypeOK, ClientState
  <1>2. ASSUME NEW n \in 1..Len(cli[s].got) PROVE cli[s].got[n] # TimersOnly
    <2>1. cli[s].got[n] \in Own(s, cli[s], n) \/ cli[s].got[n] = Lost
      BY DEF Protocol, Answered
    <2>2. (\A reply \in Own(s, cli[s], n) : reply.what = "result") /\ Lost.what = "eof" /\ TimersOnly.what = "timers"
      BY DEF Own, Lost, TimersOnly
    <2> QED BY <2>1, <2>2
  <1> QED BY <1>1, <1>2 DEF Kept

LEMMA ClientImplements ==
  ASSUME TypeOK, TypeOK', Protocol, Protocol', CallsAccounted, CallsAccounted',
         NEW s \in Sessions, ClientAct(s)
  PROVE  Calls!Next \/ AbsVars' = AbsVars
  <1>1. UNCHANGED server /\ OnlyOf(s) /\ cli[s].pc # "closed" /\ up' = up
    BY ClientFrame
  <1>2. ran' = ran /\ AbsRan' = AbsRan
    BY <1>1 DEF server, AbsRan
  <1>3. PICK c, c1 : c = cli[s] /\ c1 = cli'[s]
    OBVIOUS
  <1>4. /\ c \in ClientState /\ c1 \in ClientState
        /\ c.got \in Seq(Reply) /\ c1.got \in Seq(Reply) /\ Len(c.got) \in Nat
        /\ c.calls \in Nat
    BY <1>3 DEF TypeOK, ClientTypeOK, ClientState
  <1>5. Quiet(c, c1) \/ Calling(c, c1) \/ Heard(s, c, c1)
    BY <1>3, CallsMove, Streams, Zenon
  <1>6. Accounted(s, c, Done(s)) /\ RanOf(s) = 1..Done(s) /\ Done(s) \in Nat
    BY <1>3, AccountedByPart, DoneType
  <1>7. /\ AbsReturned = [r \in Sessions |-> ValuesOf(r, cli[r])]
        /\ AbsReturned' = [r \in Sessions |-> ValuesOf(r, cli'[r])]
        /\ AbsCalls = [r \in Sessions |-> cli[r].calls]
        /\ AbsCalls' = [r \in Sessions |-> cli'[r].calls]
        /\ \A r \in Sessions \ {s} : cli'[r] = cli[r]
    BY <1>1, TheValues DEF AbsCalls, OnlyOf
  <1>8. CASE Quiet(c, c1)
    <2>1. c.pc = "idle" /\ up => c.got = <<>>
      BY <1>1, <1>3, IdleEmpty
    <2>2. ValuesOf(s, c1) = ValuesOf(s, c)
      BY <1>4, <1>8, <2>1, ValuesStay DEF Quiet
    <2>3. AbsReturned' = AbsReturned /\ AbsCalls' = AbsCalls
      BY <1>3, <1>7, <1>8, <2>2 DEF Quiet
    <2> QED BY <1>1, <1>2, <2>3 DEF AbsVars
  <1>9. CASE Calling(c, c1)
    <2>1. Kept(c.got) = c.got
      BY <1>3, <1>4, <1>9, NoTimersKept DEF Calling
    <2>2. ValuesOf(s, c1) = ValuesOf(s, c)
      BY <1>4, <1>9, ValuesStay DEF Calling
    <2>3. Len(ValuesOf(s, c)) = c.calls
      BY <1>4, <1>6, <1>9, <2>1 DEF Calling, ValuesOf, Accounted
    <2>4. AbsReturned' = AbsReturned /\ AbsCalls' = [AbsCalls EXCEPT ![s] = @ + 1]
      BY <1>3, <1>7, <1>9, <2>2 DEF Calling
    <2>5. AbsCalls[s] = Len(AbsReturned[s])
      BY <1>3, <1>7, <2>3
    <2> QED BY <1>1, <1>2, <2>4, <2>5, AbstractCall
  <1>10. CASE Heard(s, c, c1)
    <2>1. PICK reply : Replied(c, c1, reply)
      BY <1>10 DEF Heard
    <2> DEFINE m == Len(c.got) + 1
    <2>2. /\ c1.got = Append(c.got, reply) /\ Len(c1.got) = m /\ c1.got[m] = reply
          /\ c1.calls = m /\ c.calls = m /\ c1.pc = "timers" /\ c1.module = c.module
          /\ reply \in Reply /\ m \in 1..Len(c1.got)
      BY <1>4, <1>6, <2>1 DEF Replied, Accounted
    <2>3. Kept(c.got) = c.got
      BY <1>3, <1>4, <2>1, NoTimersKept DEF Replied
    <2>4. /\ Len(ValuesOf(s, c)) = Len(c.got)
          /\ reply = TimersOnly => ValuesOf(s, c1) = ValuesOf(s, c)
          /\ reply # TimersOnly =>
               ValuesOf(s, c1) = Append(ValuesOf(s, c), ValueOf(s, c1, Len(c.got) + 1))
      <3>1. c1.got = Append(c.got, reply) /\ c1.module = c.module /\ reply \in Reply
        BY <2>2
      <3> QED BY <1>4, <2>3, <3>1, ValuesGrow
    <2>5. \/ reply \in Own(s, c1, m)
          \/ ~up /\ reply = Lost
          \/ reply = TimersOnly
      BY <1>1, <1>3, <2>2 DEF Protocol, Answered
    <2>6. reply # TimersOnly => ValueOf(s, c1, m) =
            IF reply = Lost THEN <<>> ELSE IF reply \in Own(s, c1, m) THEN <<s, m>> ELSE <<reply>>
      BY <1>4, <2>2 DEF Kept, ValueOf
    <2> HIDE DEF m
    <2>7. AbsCalls' = AbsCalls /\ AbsCalls[s] = m
      BY <1>3, <1>7, <2>2
    <2>8. Len(AbsReturned[s]) < AbsCalls[s]
      BY <1>3, <1>4, <1>7, <2>4, <2>7 DEF m
    <2>9. CASE reply = TimersOnly
      <3>1. AbsReturned' = AbsReturned
        BY <1>3, <1>7, <2>4, <2>9
      <3> QED BY <1>1, <1>2, <2>7, <3>1 DEF AbsVars
    <2>10. CASE reply # TimersOnly
      <3>1. PICK value : value = ValueOf(s, c1, m)
        OBVIOUS
      <3>2. AbsReturned' = [AbsReturned EXCEPT ![s] = Append(@, value)]
        BY <1>3, <1>7, <2>4, <2>10, <3>1 DEF m
      <3>3. CASE ~up /\ reply = Lost
        <4>1. value = <<>>
          BY <2>6, <2>10, <3>1, <3>3
        <4> QED BY <1>1, <1>2, <2>7, <2>8, <3>2, <3>3, <4>1, AbstractReturn
      <3>4. CASE reply \in Own(s, c1, m)
        <4>1. value = <<s, m>>
          BY <2>6, <2>10, <3>1, <3>4 DEF Own, Lost
        <4>2. m \in 1..Done(s)
          <5>1. Accounted(s, c1, Done(s)')
            BY <1>3 DEF CallsAccounted, Accounted
          <5>2. Done(s)' = Done(s)
            BY <1>2 DEF Done
          <5> QED BY <1>4, <1>6, <2>2, <3>4, <5>1, <5>2 DEF Accounted
        <4>3. \E i \in 1..Len(ran) : ran[i].s = s /\ ran[i].n = m
          BY <1>6, <4>2 DEF RanOf
        <4>4. \E i \in 1..Len(AbsRan) : AbsRan[i] = <<s, m>>
          <5>1. Len(AbsRan) = Len(ran)
            BY DEF AbsRan, TypeOK, ServerTypeOK
          <5>2. PICK i \in 1..Len(ran) : ran[i].s = s /\ ran[i].n = m
            BY <4>3
          <5>3. AbsRan[i] = <<s, m>>
            BY <5>2 DEF AbsRan
          <5> QED BY <5>1, <5>3
        <4> QED BY <1>1, <1>2, <2>7, <2>8, <3>2, <4>1, <4>4, AbstractReturn
      <3> QED BY <2>5, <2>10, <3>3, <3>4
    <2> QED BY <2>9, <2>10
  <1> QED BY <1>5, <1>8, <1>9, <1>10

\* The call the server executes has not returned, nor been executed.
LEMMA Outstanding ==
  ASSUME TypeOK, Protocol, CallsAccounted, NEW s \in Sessions, up,
         cli[s].calls = Done(s) + 1
  PROVE  /\ Len(ValuesOf(s, cli[s])) < cli[s].calls
         /\ \A i \in 1..Len(AbsRan) : AbsRan[i] # <<s, cli[s].calls>>
  <1>1. PICK c, k, got : c = cli[s] /\ k = Done(s) /\ got = cli[s].got
    OBVIOUS
  <1>2. /\ c.got = got /\ got \in Seq(Reply) /\ Len(got) \in Nat /\ k \in Nat
        /\ c.calls = k + 1
    BY <1>1, DoneType DEF TypeOK, ClientTypeOK, ClientState
  <1>3. Accounted(s, c, k) /\ RanOf(s) = 1..k
    BY <1>1, AccountedByPart
  <1>4. Len(ValuesOf(s, c)) = Len(Kept(got)) /\ Kept(got) \in Seq(Reply)
    BY <1>2 DEF Kept, ValuesOf
  <1>5. Len(Kept(got)) < k + 1
    <2>1. CASE Len(got) = k
      <3>1. Len(SubSeq(got, 1, Len(got) - 1)) <= Len(got)
        BY <1>2
      <3> QED BY <1>2, <2>1, <3>1 DEF Kept
    <2>2. CASE Len(got) = k + 1
      <3>1. k + 1 \in 1..Len(got) /\ got # <<>>
        BY <1>2, <2>2
      <3>2. \/ got[k + 1] \in Own(s, c, k + 1)
            \/ got[k + 1] = TimersOnly
        BY <1>1, <3>1 DEF Protocol, Answered
      <3>3. got[k + 1] \notin Own(s, c, k + 1)
        BY <1>2, <1>3, <3>1 DEF Accounted
      <3>4. Kept(got) = SubSeq(got, 1, k)
        BY <1>2, <2>2, <3>1, <3>2, <3>3 DEF Kept
      <3> QED BY <1>2, <2>2, <3>4
    <2> QED BY <1>2, <1>3, <2>1, <2>2 DEF Accounted
  <1>6. \A i \in 1..Len(ran) : ran[i].s = s => ran[i].n # k + 1
    <2> SUFFICES ASSUME NEW i \in 1..Len(ran), ran[i].s = s PROVE ran[i].n # k + 1
      OBVIOUS
    <2>1. ran[i].n \in RanOf(s)
      BY DEF RanOf
    <2> QED BY <1>2, <1>3, <2>1
  <1>7. Len(AbsRan) = Len(ran) /\ \A i \in 1..Len(ran) : AbsRan[i] = <<ran[i].s, ran[i].n>>
    BY DEF AbsRan, TypeOK, ServerTypeOK
  <1> QED BY <1>1, <1>2, <1>4, <1>5, <1>6, <1>7

LEMMA ServerImplements ==
  ASSUME TypeOK, Protocol, CallsAccounted, ServerNext
  PROVE  Calls!Next \/ AbsVars' = AbsVars
  <1>1. cli' = cli /\ AbsCalls' = AbsCalls /\ AbsReturned' = AbsReturned
    BY RanMoves, TheValues DEF AbsCalls
  <1>2. CASE ran' = ran /\ (up' = up \/ up' = FALSE)
    <2>1. AbsRan' = AbsRan
      BY <1>2 DEF AbsRan
    <2>2. CASE up' = up
      BY <1>1, <2>1, <2>2 DEF AbsVars
    <2>3. CASE up' = FALSE
      BY <1>1, <2>1, <2>3, AbstractStop
    <2> QED BY <1>2, <2>2, <2>3
  <1>3. CASE RunsNext
    <2>1. PICK r : r = CallOf(cur, cli[cur])
      OBVIOUS
    <2>2. /\ ran' = Append(ran, r) /\ r.s = cur /\ r.n = cli[cur].calls
          /\ up /\ up' = up /\ cur \in Sessions /\ cli[cur].calls = Done(cur) + 1
      BY <1>3, <2>1 DEF RunsNext, CallOf, RequestOf
    <2>3. AbsRan' = Append(AbsRan, <<cur, cli[cur].calls>>)
      <3> DEFINE m == Len(ran)
      <3>1. /\ m \in Nat /\ Len(ran') = m + 1 /\ ran'[m + 1] = r
            /\ \A i \in 1..m : ran'[i] = ran[i]
        BY <2>2 DEF TypeOK, ServerTypeOK
      <3>2. AbsRan' = [i \in 1..(m + 1) |-> <<ran'[i].s, ran'[i].n>>]
        BY <3>1 DEF AbsRan
      <3>3. AbsRan = [i \in 1..m |-> <<ran[i].s, ran[i].n>>]
        BY DEF AbsRan
      <3> HIDE DEF m
      <3>4. Append(AbsRan, <<cur, cli[cur].calls>>) =
              [i \in 1..(m + 1) |-> IF i = m + 1 THEN <<cur, cli[cur].calls>>
                                    ELSE <<ran[i].s, ran[i].n>>]
        BY <3>1, <3>3
      <3>5. \A i \in 1..(m + 1) : <<ran'[i].s, ran'[i].n>> =
              IF i = m + 1 THEN <<cur, cli[cur].calls>> ELSE <<ran[i].s, ran[i].n>>
        BY <2>2, <3>1
      <3> QED BY <3>2, <3>4, <3>5
    <2>4. AbsCalls[cur] = cli[cur].calls /\ AbsReturned[cur] = ValuesOf(cur, cli[cur])
      BY <2>2, TheValues DEF AbsCalls
    <2> QED BY <1>1, <2>2, <2>3, <2>4, Outstanding, AbstractExecute
  <1> QED BY <1>2, <1>3, RanMoves

(***************************************************************************)
(* The clients, the server and its enclaves implement RemoteCalls: every   *)
(* call of a session is executed at most once, in order, and returns the   *)
(* output of its own execution, or nothing when the server has stopped,    *)
(* for every number of sessions and calls, in every mode, wherever clients *)
(* die and whatever their requests raise (offload, lclient.lua:103; the    *)
(* request loop, App.cpp:130-206).                                         *)
(***************************************************************************)
THEOREM ImplementsRemoteCalls == Spec => RemoteCallsSpec
  <1>1. Init => Calls!Init
    <2> SUFFICES ASSUME Init PROVE Calls!Init
      OBVIOUS
    <2>1. \A s \in Sessions : cli[s].calls = 0 /\ cli[s].got = <<>>
      BY DEF Init, ClientInit
    <2>2. ran = <<>> /\ up = TRUE
      BY DEF Init, ServerInit, WireInit
    <2>3. AbsCalls = [s \in Sessions |-> 0]
      BY <2>1 DEF AbsCalls
    <2>4. AbsRan = <<>>
      BY <2>2 DEF AbsRan
    <2>5. \A s \in Sessions : ValuesOf(s, cli[s]) = <<>>
      <3> SUFFICES ASSUME NEW s \in Sessions PROVE ValuesOf(s, cli[s]) = <<>>
        OBVIOUS
      <3>1. Kept(cli[s].got) = <<>>
        BY <2>1 DEF Kept
      <3> QED BY <3>1 DEF ValuesOf
    <2>6. AbsReturned = [s \in Sessions |-> <<>>]
      BY <2>5, TheValues
    <2> QED BY <2>2, <2>3, <2>4, <2>6, Abstract
  <1>2. /\ TypeOK /\ TypeOK' /\ Protocol /\ Protocol' /\ CallsAccounted /\ CallsAccounted'
        /\ [Next]_vars
        => [Calls!Next]_Calls!vars
    <2> SUFFICES ASSUME TypeOK, TypeOK', Protocol, Protocol', CallsAccounted,
                        CallsAccounted', [Next]_vars
                 PROVE  Calls!Next \/ AbsVars' = AbsVars
      BY Abstract
    <2>1. CASE UNCHANGED vars \/ Terminated
      <3>1. cli' = cli /\ ran' = ran /\ up' = up
        BY <2>1 DEF Terminated, vars, wire, server
      <3>2. AbsCalls' = AbsCalls /\ AbsRan' = AbsRan /\ AbsReturned' = AbsReturned
        BY <3>1, TheValues DEF AbsCalls, AbsRan
      <3> QED BY <3>1, <3>2 DEF AbsVars
    <2>2. CASE \E s \in Sessions : ClientAct(s)
      BY <2>2, ClientImplements
    <2>3. CASE ServerNext
      BY <2>3, ServerImplements
    <2> QED BY <2>1, <2>2, <2>3 DEF Next, ClientAct
  <1> QED BY <1>1, <1>2, CallsAgree, ProtocolHolds, TypeCorrect, PTL
          DEF Spec, RemoteCallsSpec, Calls!Spec

-----------------------------------------------------------------------------
(***************************************************************************)
(* Whose text a session can see.  The invariant follows the text of the    *)
(* module files: a file on its way to the server, and the one on the disk, *)
(* is its owner's and is sealed with the owner's key unless that session   *)
(* is plain; what is executed was sent in the mode the server is in; and   *)
(* an enclave that is about to run has nothing printed from before.        *)
(***************************************************************************)
Late == {"name", "ready", "response", "timers", "closed"}
ModuleUnit(m) == m.t = "pkt" /\ m.what = "module"
Sealed(s, c, file) ==
  /\ c.pc \in Late
  /\ file.out = ModuleOf(s) /\ file.key = c.key
  /\ file.key = Zero => c.mode # 1

UploadSealed(s) ==
  \A i \in 1..Len(c2s[s]) : ModuleUnit(c2s[s][i]) => Sealed(s, cli[s], c2s[s][i])
DownReadable(s) ==
  \A i \in 1..Len(s2c[s]) : s2c[s][i].t = "pkt" => s2c[s][i].out \in Seq(Outputs(s))
GotReadable(s) ==
  \A n \in 1..Len(cli[s].got) : cli[s].got[n].out \in Seq(Outputs(s))

FileSealed == disk.module = Empty \/ \E o \in Sessions : Sealed(o, cli[o], disk.module)
CodeMode ==
  /\ encryption_mode \in {0, 1, 2}
  /\ pc = "exec" /\ disk.code.out # <<>> =>
       encryption_mode = cli[cur].mode /\ cli[cur].pc # "idle"
NoOutput == \A e \in Eids : enclave[e].response = <<>>

Private ==
  /\ up => \A s \in Sessions : UploadSealed(s)
  /\ \A s \in Sessions : DownReadable(s)
  /\ \A s \in Sessions : GotReadable(s)
  /\ FileSealed /\ CodeMode /\ NoOutput

\* A client that has uploaded its file keeps its key and its mode.
LEMMA LateStays ==
  ASSUME StreamsType, NEW s \in Sessions, ClientAct(s), cli[s].pc \in Late
  PROVE  /\ cli'[s].pc \in Late /\ cli'[s].key = cli[s].key /\ cli'[s].mode = cli[s].mode
  <1>1. PICK c, c1 : c = cli[s] /\ c1 = cli'[s]
    OBVIOUS
  <1>2. c \in ClientState
    BY <1>1 DEF StreamsType
  <1>3. Moved(c, c1)
    BY <1>1, RecordMoves, Zenon
  <1>4. c1.key = c.key /\ c1.mode = c.mode
    BY <1>1, <1>3 DEF Moved, Late
  <1> SUFFICES c1.pc \in Late
    BY <1>1, <1>4
  <1>5. ASSUME NEW q \in Late, c1 = [c EXCEPT !.pc = q]
        PROVE  c1.pc \in Late
    BY <1>2, <1>5 DEF ClientState
  <1>a. CASE SendModules(s)
    <2>1. cli[s].pc = "name"
      BY <1>a DEF SendModules, Late
    <2>2. c1 = [c EXCEPT !.pc = "ready"]
      <3>1. PICK q : /\ q = IF cli[s].pc = "count" THEN IF cli[s].module THEN "file" ELSE "ready"
                            ELSE IF cli[s].pc = "file" THEN "name" ELSE "ready"
                     /\ cli'[s] = [cli[s] EXCEPT !.pc = q]
        BY <1>a, UploadMoves, Zenon
      <3> QED BY <1>1, <2>1, <3>1
    <2> QED BY <1>5, <2>2 DEF Late
  <1>b. CASE Call(s)
    <2>1. \/ c1 = [c EXCEPT !.pc = "response", !.calls = @ + 1]
          \/ c1 = [c EXCEPT !.pc = "timers"]
      BY <1>b, <1>1, CallMoves, Zenon
    <2>2. CASE c1 = [c EXCEPT !.pc = "response", !.calls = @ + 1]
      BY <1>2, <2>2 DEF ClientState, Late
    <2> QED BY <1>5, <2>1, <2>2 DEF Late
  <1>c. CASE RecvResponse(s)
    <2>1. PICK r : c1 = [c EXCEPT !.pc = "timers", !.got = Append(@, r)]
      BY <1>c, <1>1, ResponseMoves, Zenon
    <2>2. PICK g : c1 = [c EXCEPT !.pc = "timers", !.got = g]
      BY <2>1
    <2> QED BY <1>2, <2>2 DEF ClientState, Late
  <1>d. CASE RecvTimers(s)
    <2>1. PICK q : /\ q = IF Sends(cli[s].mode) THEN "ready" ELSE "closed"
                   /\ c1 = [c EXCEPT !.pc = q]
      BY <1>d, <1>1, TimersMoves, Zenon
    <2> QED BY <1>5, <2>1 DEF Late
  <1>e. CASE Leave(s) \/ CrashConnecting(s)
    <2>1. c1 = [c EXCEPT !.pc = "closed"]
      BY <1>e, <1>1, LeaveMoves, Zenon
    <2> QED BY <1>5, <2>1 DEF Late
  <1>f. CASE Close(s) \/ Fail(s) \/ Kill(s)
    BY <1>e, <1>f DEF Close, Fail, Kill, Crash
  <1>g. ~Connect(s) /\ ~SendPublicKey(s) /\ ~RecvServerKey(s) /\ ~RecvHalf(s)
    BY DEF Connect, SendPublicKey, RecvServerKey, RecvHalf, Late
  <1> QED BY <1>a, <1>b, <1>c, <1>d, <1>f, <1>g DEF ClientAct, Step, ClientStep

\* What a client's step does to its streams.
LEMMA UpMoves ==
  ASSUME StreamsType, NEW s \in Sessions, ClientAct(s)
  PROVE  \/ c2s'[s] = c2s[s]
         \/ \E m : /\ c2s'[s] = Append(c2s[s], m)
                   /\ ModuleUnit(m) =>
                        /\ cli[s].pc = "file" /\ cli'[s].pc \in Late
                        /\ m.out = ModuleOf(s) /\ m.key = cli[s].key
  <1>1. /\ ~ModuleUnit(TheClientKey(s))
        /\ \A n : ~ModuleUnit(TheInt(n))
    BY DEF ModuleUnit, TheInt, TheClientKey
  <1>2. ModuleUnit(NextUnit(s)) =>
          /\ cli[s].pc = "file" /\ NextUnit(s).out = ModuleOf(s)
          /\ NextUnit(s).key = cli[s].key
    BY DEF ModuleUnit, NextUnit, TheInt, Text
  <1>3. /\ NextUnit(s) \in UpUnit
        /\ cli[s].pc \in {"file", "name", "ready"} => NextUnit(s) \in Packet
    BY NextUnitType DEF StreamsType, ClientTypeOK
  <1>a. CASE Connect(s)
    BY <1>1, <1>a, ConnectMoves
  <1>b. CASE SendPublicKey(s)
    BY <1>1, <1>b, HandshakeMoves
  <1>c. CASE RecvServerKey(s) \/ RecvHalf(s) \/ RecvResponse(s) \/ RecvTimers(s)
             \/ Close(s) \/ Fail(s) \/ CrashConnecting(s)
    BY <1>c DEF RecvServerKey, RecvHalf, RecvResponse, RecvTimers, Close, Fail,
                CrashConnecting
  <1>d. CASE SendModules(s)
    <2>1. c2s'[s] = Append(c2s[s], NextUnit(s))
      BY <1>d, UploadMoves
    <2>2. cli[s].pc = "file" => cli'[s].pc \in Late
      <3>1. cli[s].pc = "file" => cli'[s] = [cli[s] EXCEPT !.pc = "name"]
        BY <1>d, UploadMoves
      <3>2. cli[s] \in ClientState
        BY DEF StreamsType
      <3> QED BY <3>1, <3>2 DEF ClientState, Late
    <2> QED BY <1>2, <2>1, <2>2
  <1>e. CASE Call(s)
    <2>1. c2s'[s] = Append(c2s[s], NextUnit(s)) \/ c2s'[s] = c2s[s]
      BY <1>e, CallMoves
    <2>2. cli[s].pc = "ready"
      BY <1>e DEF Call
    <2> QED BY <1>2, <2>1, <2>2
  <1>f. CASE Crash(s)
    <2>1. cli'[s].pc = "closed"
      <3>1. cli'[s] = [cli[s] EXCEPT !.pc = "closed"]
        BY <1>f, LeaveMoves DEF Crash
      <3>2. cli[s] \in ClientState
        BY DEF StreamsType
      <3> QED BY <3>1, <3>2 DEF ClientState
    <2>2. \/ c2s' = c2s
          \/ /\ cli[s].pc \in {"file", "name", "ready"}
             /\ SendUp(s, [NextUnit(s) EXCEPT !.cut = TRUE])
      BY <1>f DEF Crash
    <2>3. CASE cli[s].pc \in {"file", "name", "ready"}
               /\ SendUp(s, [NextUnit(s) EXCEPT !.cut = TRUE])
      <3>1. PICK m : m = [NextUnit(s) EXCEPT !.cut = TRUE]
        OBVIOUS
      <3>2. c2s'[s] = Append(c2s[s], m)
        BY <2>3, <3>1 DEF SendUp, StreamsType
      <3>3. ModuleUnit(m) => ModuleUnit(NextUnit(s)) /\ m.out = NextUnit(s).out
                             /\ m.key = NextUnit(s).key
        BY <1>3, <2>3, <3>1 DEF ModuleUnit, Packet
      <3> QED BY <1>2, <2>1, <3>2, <3>3 DEF Late
    <2> QED BY <2>2, <2>3
  <1> QED BY <1>a, <1>b, <1>c, <1>d, <1>e, <1>f DEF ClientAct, Step, ClientStep, Kill

LEMMA DownMoves ==
  ASSUME StreamsType, NEW s \in Sessions, ClientAct(s)
  PROVE  s2c'[s] = s2c[s] \/ (s2c[s] # <<>> /\ s2c'[s] = Tail(s2c[s]))
  <1>a. CASE Connect(s) \/ SendPublicKey(s) \/ SendModules(s) \/ Call(s) \/ Close(s)
             \/ Fail(s) \/ Kill(s)
    BY <1>a DEF Connect, SendPublicKey, SendModules, Call, Close, Fail, Kill, Crash,
                CrashConnecting, Leave
  <1>b. CASE RecvServerKey(s) \/ RecvHalf(s)
    BY <1>b, HandshakeMoves
  <1>c. CASE RecvResponse(s)
    BY <1>c, ResponseMoves
  <1>d. CASE RecvTimers(s)
    BY <1>d, TimersMoves
  <1> QED BY <1>a, <1>b, <1>c, <1>d DEF ClientAct, Step, ClientStep

\* A client takes what it returns from a packet of its stream.
LEMMA GotMoves ==
  ASSUME StreamsType, NEW s \in Sessions, ClientAct(s)
  PROVE  \/ cli'[s].got = cli[s].got
         \/ \E reply : /\ cli'[s].got = Append(cli[s].got, reply)
                       /\ \/ reply.out = <<>>
                          \/ ArrivedDown(s, {"pkt"}) /\ reply.out = Head(s2c[s]).out
  <1>1. Moved(cli[s], cli'[s]) /\ cli[s] \in ClientState
    BY RecordMoves DEF StreamsType
  <1>2. CASE RecvResponse(s)
    <2>1. PICK reply : /\ cli' = [cli EXCEPT ![s].pc = "timers", ![s].got = Append(@, reply)]
                       /\ \/ /\ ArrivedDown(s, {"pkt"})
                             /\ reply = View(Head(s2c[s]), cli[s].key)
                          \/ reply = Lost
      BY <1>2, Zenon DEF RecvResponse, Lost
    <2>2. cli'[s].got = Append(cli[s].got, reply)
      BY <1>1, <2>1 DEF StreamsType, ClientState
    <2>3. reply = View(Head(s2c[s]), cli[s].key) =>
            reply.out \in {Head(s2c[s]).out, <<>>}
      BY DEF View
    <2>4. reply = Lost => reply.out = <<>>
      BY DEF Lost
    <2> QED BY <2>1, <2>2, <2>3, <2>4
  <1>3. CASE Fail(s) \/ Kill(s)
    <2>1. cli'[s] = [cli[s] EXCEPT !.pc = "closed"]
      BY <1>3, LeaveMoves DEF Fail, Kill, Crash
    <2> QED BY <1>1, <2>1 DEF ClientState
  <1>4. CASE ~(RecvResponse(s) \/ Fail(s) \/ Kill(s))
    <2>1. cli[s].pc # "response"
      BY <1>4 DEF ClientAct, Step, ClientStep, Connect, SendPublicKey, RecvServerKey,
                  RecvHalf, SendModules, Call, RecvTimers, Close
    <2> QED BY <1>1, <2>1 DEF Moved
  <1> QED BY <1>2, <1>3, <1>4

\* More sessions may turn plain, so what may be read does not get less.
LEMMA ReadableGrows ==
  ASSUME StreamsType, NEW s \in Sessions, ClientAct(s), OnlyOf(s)
  PROVE  \A r \in Sessions : Seq(Outputs(r)) \subseteq Seq(Outputs(r)')
  <1>1. Moved(cli[s], cli'[s])
    BY RecordMoves
  <1>2. \A r \in Sessions : cli[r].pc # "idle" /\ cli[r].mode # 1 =>
          cli'[r].pc # "idle" /\ cli'[r].mode # 1
    BY <1>1 DEF OnlyOf, Moved
  <1>3. Plain \subseteq Plain'
    BY <1>2 DEF Plain
  <1> SUFFICES ASSUME NEW r \in Sessions PROVE Seq(Outputs(r)) \subseteq Seq(Outputs(r)')
    OBVIOUS
  <1>4. Readable(r) \subseteq Readable(r)'
    BY <1>3 DEF Readable
  <1>5. Outputs(r) \subseteq Outputs(r)'
    BY <1>4 DEF Outputs
  <1> QED BY <1>5, SeqMonotonic

LEMMA ClientPrivate ==
  ASSUME TypeOK, TypeOK', Protocol, KeysAgree, Private, NEW s \in Sessions, ClientAct(s)
  PROVE  Private'
  <1>0. StreamsType /\ StreamsType' /\ cli[s] \in ClientState
    BY Streams DEF StreamsType, TypeOK, WireTypeOK, ClientTypeOK
  <1>1. up' = up /\ UNCHANGED server /\ OnlyOf(s)
    BY ClientFrame
  <1>2. \A r \in Sessions : Seq(Outputs(r)) \subseteq Seq(Outputs(r)')
    BY <1>0, <1>1, ReadableGrows
  <1>3. \A r \in Sessions : cli[r].pc \in Late =>
          cli'[r].pc \in Late /\ cli'[r].key = cli[r].key /\ cli'[r].mode = cli[r].mode
    BY <1>0, <1>1, LateStays DEF OnlyOf
  <1>4. \A r \in Sessions : \A f : Sealed(r, cli[r], f) => Sealed(r, cli'[r], f)
    BY <1>3 DEF Sealed
  <1>5. Moved(cli[s], cli'[s])
    BY <1>0, RecordMoves
  <1>6. FileSealed'
    <2>1. disk' = disk
      BY <1>1 DEF server
    <2> QED BY <1>4, <2>1 DEF Private, FileSealed
  <1>7. CodeMode' /\ NoOutput'
    <2>1. /\ disk' = disk /\ cur' = cur /\ pc' = pc /\ encryption_mode' = encryption_mode
          /\ enclave' = enclave /\ cur \in Sessions
      BY <1>1 DEF server, host, sgx, TypeOK, ServerTypeOK
    <2>2. cli[cur].pc # "idle" => cli'[cur].pc # "idle" /\ cli'[cur].mode = cli[cur].mode
      BY <1>1, <1>5, <2>1 DEF OnlyOf, Moved
    <2> QED BY <2>1, <2>2 DEF Private, CodeMode, NoOutput
  <1>8. ASSUME up', NEW r \in Sessions PROVE UploadSealed(r)'
    <2>1. UploadSealed(r) /\ up
      BY <1>1, <1>8 DEF Private
    <2>2. CASE c2s'[r] = c2s[r]
      BY <1>4, <2>1, <2>2 DEF UploadSealed
    <2>3. CASE r = s
      <3>1. \/ c2s'[s] = c2s[s]
            \/ \E m : /\ c2s'[s] = Append(c2s[s], m)
                      /\ ModuleUnit(m) =>
                           /\ cli[s].pc = "file" /\ cli'[s].pc \in Late
                           /\ m.out = ModuleOf(s) /\ m.key = cli[s].key
        BY <1>0, UpMoves
      <3>2. ASSUME NEW m, c2s'[s] = Append(c2s[s], m),
                   ModuleUnit(m) =>
                     /\ cli[s].pc = "file" /\ cli'[s].pc \in Late
                     /\ m.out = ModuleOf(s) /\ m.key = cli[s].key
            PROVE  UploadSealed(s)'
        <4>1. ModuleUnit(m) => Sealed(s, cli'[s], m)
          <5> SUFFICES ASSUME ModuleUnit(m) PROVE Sealed(s, cli'[s], m)
            OBVIOUS
          <5>1. cli[s].mode = 1 => cli[s].key # Zero
            BY <2>1, <3>2 DEF KeysAgree
          <5>2. cli'[s].key = cli[s].key /\ cli'[s].mode = cli[s].mode
            BY <1>5, <3>2 DEF Moved
          <5> QED BY <3>2, <5>1, <5>2 DEF Sealed
        <4>2. c2s[s] \in Seq(UpUnit)
          BY <1>0 DEF StreamsType
        <4>3. \A i \in 1..Len(c2s[s]) : ModuleUnit(c2s[s][i]) => Sealed(s, cli'[s], c2s[s][i])
          BY <1>4, <2>1, <2>3 DEF UploadSealed
        <4>4. \A i \in 1..Len(c2s'[s]) :
                (i \in 1..Len(c2s[s]) /\ c2s'[s][i] = c2s[s][i]) \/ c2s'[s][i] = m
          BY <3>2, <4>2
        <4> QED BY <4>1, <4>3, <4>4 DEF UploadSealed
      <3> QED BY <2>2, <2>3, <3>1, <3>2
    <2> QED BY <1>1, <2>2, <2>3 DEF OnlyOf
  <1>9. ASSUME NEW r \in Sessions PROVE DownReadable(r)'
    <2>1. DownReadable(r)
      BY DEF Private
    <2>2. \A i \in 1..Len(s2c[r]) : s2c[r][i].t = "pkt" => s2c[r][i].out \in Seq(Outputs(r)')
      BY <1>2, <2>1 DEF DownReadable
    <2>3. s2c'[r] = s2c[r] \/ (s2c[r] # <<>> /\ s2c'[r] = Tail(s2c[r]))
      BY <1>0, <1>1, DownMoves DEF OnlyOf
    <2>4. s2c[r] \in Seq(DownUnit)
      BY <1>0 DEF StreamsType
    <2>5. \A i \in 1..Len(s2c'[r]) : \E j \in 1..Len(s2c[r]) : s2c'[r][i] = s2c[r][j]
      <3>1. CASE s2c[r] # <<>> /\ s2c'[r] = Tail(s2c[r])
        <4>1. /\ Len(s2c[r]) \in Nat /\ Len(s2c'[r]) = Len(s2c[r]) - 1
              /\ \A i \in 1..Len(s2c'[r]) : s2c'[r][i] = s2c[r][i + 1]
          BY <2>4, <3>1
        <4> QED BY <4>1
      <3> QED BY <2>3, <3>1
    <2> QED BY <2>2, <2>5 DEF DownReadable
  <1>10. ASSUME NEW r \in Sessions PROVE GotReadable(r)'
    <2>1. \A n \in 1..Len(cli[r].got) : cli[r].got[n].out \in Seq(Outputs(r)')
      BY <1>2 DEF Private, GotReadable
    <2>2. CASE cli'[r].got = cli[r].got
      BY <2>1, <2>2 DEF GotReadable
    <2>3. ASSUME r = s, NEW reply, cli'[s].got = Append(cli[s].got, reply),
                 reply.out = <<>> \/ (ArrivedDown(s, {"pkt"}) /\ reply.out = Head(s2c[s]).out)
          PROVE  GotReadable(s)'
      <3>1. reply.out \in Seq(Outputs(s)')
        <4>1. <<>> \in Seq(Outputs(s)')
          OBVIOUS
        <4>2. CASE ArrivedDown(s, {"pkt"}) /\ reply.out = Head(s2c[s]).out
          <5>1. PICK m : m = Head(s2c[s])
            OBVIOUS
          <5>2. m = s2c[s][1] /\ 1 \in 1..Len(s2c[s]) /\ m.t = "pkt"
            BY <1>0, <4>2, <5>1 DEF StreamsType, ArrivedDown
          <5>3. m.out \in Seq(Outputs(s)')
            BY <1>2, <5>2 DEF Private, DownReadable
          <5> QED BY <4>2, <5>1, <5>3
        <4> QED BY <2>3, <4>1, <4>2
      <3>2. cli[s].got \in Seq(Reply)
        BY <1>0 DEF ClientState
      <3>3. \A n \in 1..Len(cli'[s].got) :
              \/ n \in 1..Len(cli[s].got) /\ cli'[s].got[n] = cli[s].got[n]
              \/ cli'[s].got[n] = reply
        BY <2>3, <3>2
      <3> QED BY <2>1, <2>3, <3>1, <3>3 DEF GotReadable
    <2>4. \/ cli'[s].got = cli[s].got
          \/ \E reply : /\ cli'[s].got = Append(cli[s].got, reply)
                        /\ \/ reply.out = <<>>
                           \/ ArrivedDown(s, {"pkt"}) /\ reply.out = Head(s2c[s]).out
      BY <1>0, GotMoves
    <2> QED BY <1>1, <2>2, <2>3, <2>4 DEF OnlyOf
  <1> QED BY <1>6, <1>7, <1>8, <1>9, <1>10 DEF Private

\* What a step of the server leaves of the streams up, of the module file and of
\* the enclaves' output.
LEMMA ServerTakes ==
  ASSUME ServerStep
  PROVE  \/ c2s' = c2s
         \/ c2s[cur] # <<>> /\ c2s' = [c2s EXCEPT ![cur] = Tail(@)]
         \/ RecvModule
  BY DEF ServerStep, Accept, RecvMode, UnknownMode, Handshake, KeysLost, RecvCount,
         ModuleMissing, Spin, RecvCode, UnsetLength, EndSession, Execute, ExecuteFails,
         ExecuteOnHost, HostError, ResultLost, TimersLost, SendTimers, DieWriting, Die,
         Deliver, StartRequest, TakeUp, ArrivedUp, wire

LEMMA ModuleFileKept ==
  ASSUME TypeOK, ServerStep, ~RecvModule
  PROVE  disk'.module = disk.module
  <1>1. disk \in [code : File, module : File]
    BY DEF TypeOK, ServerTypeOK
  <1>2. \A code : StartRequest(code) => disk'.module = disk.module
    BY <1>1 DEF StartRequest
  <1> QED
    BY <1>2
    DEF ServerStep, Accept, RecvMode, UnknownMode, Handshake, KeysLost, RecvCount,
        ModuleMissing, Spin, RecvCode, UnsetLength, EndSession, Execute, ExecuteFails,
        ExecuteOnHost, HostError, ResultLost, TimersLost, SendTimers, DieWriting, Die,
        Deliver

\* Starting the server's Lua states prints nothing.
LEMMA NothingPrinted ==
  ASSUME TypeOK, NoOutput, ServerStep
  PROVE  NoOutput'
  <1>0. ServerTypeOK /\ unique_eid \in Eids
    BY DEF TypeOK, ServerTypeOK
  <1>1. EcallInit(Loaded).response = <<>>
    BY DEF EcallInit, Bootstrap, Loaded
  <1>2. ASSUME NEW e \in EnclaveState
        PROVE  /\ EcallExecuteEnd(e).response = <<>>
               /\ [EcallExecuteStart(e, Local) EXCEPT !.crashed = TRUE].response = e.response
    BY DEF EcallExecuteEnd, EcallExecuteStart, Bootstrap, EnclaveState
  <1>3. ASSUME NEW e, NEW packet, Deliver(e, packet), e.response = <<>>
        PROVE  NoOutput'
    BY <1>0, <1>3 DEF Deliver, NoOutput, ServerTypeOK
  <1>a. CASE enclave' = enclave
    BY <1>a DEF NoOutput
  <1>b. CASE RecvMode
    <2>1. \A k : EcallGenPkeys(EcallInit(Loaded), k).response = <<>>
      BY DEF EcallGenPkeys, EcallInit, Bootstrap, Loaded
    <2>2. PICK mode : StartSession(mode)
      BY <1>b DEF RecvMode
    <2> QED BY <1>0, <2>1, <2>2 DEF StartSession, SetupEnclave, NoOutput, ServerTypeOK, sgx
  <1>c. CASE Handshake
    <2>1. PICK c, k : enclave' = [enclave EXCEPT ![unique_eid] =
                        EcallSendAesKey(EcallRegisterClient(enclave[unique_eid], c), k)]
      BY <1>c, Zenon DEF Handshake
    <2>2. \A e \in EnclaveState :
            EcallSendAesKey(EcallRegisterClient(e, c), k).response = e.response
      BY DEF EcallSendAesKey, EcallRegisterClient, EnclaveState
    <2> QED BY <1>0, <2>1, <2>2 DEF NoOutput, ServerTypeOK
  <1>d. CASE RecvCode \/ UnsetLength
    <2>1. CASE \E code : StartRequest(code)
      BY <1>0, <1>1, <2>1 DEF StartRequest, SetupEnclave, NoOutput, ServerTypeOK
    <2> QED BY <1>a, <1>d, <2>1 DEF RecvCode, UnsetLength, Die, sgx
  <1>e. CASE Execute
    <2>1. Started \in EnclaveState
      BY <1>0, EcallTypes DEF Started, ServerTypeOK, Local
    <2>2. disk.code \in File /\ disk.module \in File /\ disk.code.out # <<>>
      BY <1>0, <1>e DEF Execute, Runs, ServerTypeOK
    <2>3. PICK done : /\ done = Main(Started, disk.code, disk.module)
                      /\ Deliver(EcallExecuteEnd(done), ResultPacket(done, Local))
      BY <1>e, Zenon DEF Execute
    <2>4. done \in EnclaveState
      BY <2>1, <2>2, <2>3, MainType
    <2> QED BY <1>2, <1>3, <2>3, <2>4
  <1>f. CASE ExecuteFails
    <2>1. enclave' = [enclave EXCEPT ![unique_eid] =
                        [EcallExecuteStart(enclave[unique_eid], Local) EXCEPT !.crashed = TRUE]]
      BY <1>f, Zenon DEF ExecuteFails, Started
    <2> QED BY <1>0, <1>2, <2>1 DEF NoOutput, ServerTypeOK
  <1>g. CASE ExecuteOnHost
    <2>1. enclave' = [enclave EXCEPT ![unique_eid] = enclave[unique_eid]]
      BY <1>g, Zenon DEF ExecuteOnHost, Deliver
    <2> QED BY <1>0, <2>1 DEF NoOutput, ServerTypeOK
  <1>h. CASE Accept \/ UnknownMode \/ KeysLost \/ RecvCount \/ RecvModule
             \/ ModuleMissing \/ Spin \/ EndSession \/ HostError \/ ResultLost
             \/ TimersLost \/ SendTimers
    BY <1>a, <1>h DEF Accept, UnknownMode, KeysLost, RecvCount, RecvModule, ModuleMissing,
         Spin, EndSession, HostError, ResultLost, TimersLost, SendTimers, DieWriting, Die, sgx
  <1> QED BY <1>b, <1>c, <1>d, <1>e, <1>f, <1>g, <1>h DEF ServerStep

\* What is executed was sent in the mode the server is in.
LEMMA CodeModeKept ==
  ASSUME TypeOK, Protocol, CodeMode, ServerStep, cli' = cli
  PROVE  CodeMode'
  <1>1. encryption_mode' \in {0, 1, 2}
    BY DEF CodeMode, ServerStep, Accept, RecvMode, UnknownMode, Handshake, KeysLost,
           RecvCount, RecvModule, ModuleMissing, Spin, RecvCode, UnsetLength, EndSession,
           Execute, ExecuteFails, ExecuteOnHost, HostError, ResultLost, TimersLost,
           SendTimers, DieWriting, Die, Deliver, StartRequest, StartSession
  <1>2. CASE RecvCode
    <2>1. /\ pc = "code" /\ c2s[cur] # <<>> /\ cur' = cur
          /\ encryption_mode' = encryption_mode
      BY <1>2 DEF RecvCode, ArrivedUp, StartRequest
    <2>2. PICK c, u, d, k, e : c = cli[cur] /\ u = c2s[cur] /\ d = s2c[cur] /\ k = Done(cur)
                               /\ e = Current
      OBVIOUS
    <2>3. Fits(cur, c, u, d, "code", k, encryption_mode, e, disk, fin)
      BY <2>1, <2>2, CurrentFits
    <2>4. encryption_mode = c.mode
      BY <2>1, <2>2, <2>3 DEF Fits, UpFits, Early
    <2>5. c.pc # "idle"
      <3>1. cur \in fin => c.pc = "closed"
        BY <2>1, <2>2, CurrentFits DEF Protocol, Ended
      <3>2. cur \notin fin => c.pc # "idle"
        BY <2>3 DEF Fits, LiveFits
      <3> QED BY <3>1, <3>2
    <2> QED BY <1>1, <2>1, <2>2, <2>4, <2>5 DEF CodeMode
  <1>3. CASE UnsetLength
    <2>1. pc' = "exec" => disk'.code.out = <<>>
      <3>1. disk \in [code : File, module : File]
        BY DEF TypeOK, ServerTypeOK
      <3>2. StartRequest(Empty) => disk'.code = Empty
        BY <3>1 DEF StartRequest
      <3> QED BY <1>3, <3>2 DEF UnsetLength, Die, Empty
    <2> QED BY <1>1, <2>1 DEF CodeMode
  <1>4. CASE ~RecvCode /\ ~UnsetLength
    <2>1. pc' # "exec"
      BY <1>4
      DEF ServerStep, Accept, RecvMode, UnknownMode, Handshake, KeysLost, RecvCount,
          RecvModule, ModuleMissing, Spin, EndSession, Execute, ExecuteFails, ExecuteOnHost,
          HostError, ResultLost, TimersLost, SendTimers, DieWriting, Die, Deliver,
          StartSession
    <2> QED BY <1>1, <2>1 DEF CodeMode
  <1> QED BY <1>2, <1>3, <1>4

\* The module file that is written is sealed by the session that uploaded it.
LEMMA FileWritten ==
  ASSUME TypeOK, Protocol, RecvModule, UploadSealed(cur), cli' = cli
  PROVE  FileSealed'
  <1>1. /\ pc = "module" /\ Len(c2s[cur]) >= 2 /\ ~CutUnit(c2s[cur][1])
        /\ disk'.module = [out |-> c2s[cur][1].out, key |-> c2s[cur][1].key]
    BY DEF RecvModule, CutUnit, TypeOK, ServerTypeOK
  <1>2. PICK c, u, d, k, em, e, files :
          /\ c = cli[cur] /\ u = c2s[cur] /\ d = s2c[cur] /\ k = Done(cur)
          /\ em = encryption_mode /\ e = Current /\ files = disk
    OBVIOUS
  <1>3. /\ Fits(cur, c, u, d, "module", k, em, e, files, fin) /\ cur \in Sessions
        /\ c \in ClientState /\ u \in Seq(UpUnit)
    BY <1>1, <1>2, CurrentFits
  <1>4. Len(u) \in Nat /\ Len(u) >= 2 /\ u # <<>> /\ 1 \in 1..Len(u) /\ 1 # Len(u)
    <2>1. Len(u) \in Nat /\ Len(u) >= 2
      BY <1>1, <1>2, <1>3
    <2>2. u # <<>>
      BY <2>1
    <2>3. PICK n \in Nat : n = Len(u) /\ n >= 2
      BY <2>1
    <2>4. 1 \in 1..n /\ 1 # n
      BY <2>3
    <2> QED BY <2>2, <2>3, <2>4
  <1>5. c.module /\ Line(cur, c, u, CountAt(c) + 1, cur \in fin)
    BY <1>3, <1>4 DEF Fits, UpFits, Reading, Early
  <1>6. /\ CountAt(c) \in Nat /\ CountAt(c) >= 1 /\ CodeAt(c) = CountAt(c) + 3
    BY <1>3, <1>5, Places
  <1>7. u[1] = Unit(cur, c, CountAt(c) + 1)
    <2>1. CountAt(c) + 1 + 1 - 1 = CountAt(c) + 1
      BY <1>6
    <2> QED BY <1>4, <1>5, <2>1 DEF Line
  <1>8. ModuleUnit(u[1])
    <2>1. /\ CountAt(c) + 1 # 0 /\ CountAt(c) + 1 # CountAt(c)
          /\ CountAt(c) + 1 # CodeAt(c) /\ CountAt(c) + 1 # 1
      BY <1>6
    <2> QED BY <1>7, <2>1 DEF Unit, ModuleUnit, Text
  <1>9. Sealed(cur, c, u[1])
    BY <1>2, <1>4, <1>8 DEF UploadSealed
  <1>10. Sealed(cur, cli'[cur], disk'.module)
    BY <1>1, <1>2, <1>9 DEF Sealed
  <1> QED BY <1>3, <1>10 DEF FileSealed

\* What a request prints can be read by the session it is executed for.
LEMMA PrintedReadable ==
  ASSUME TypeOK, Protocol, FileSealed, CodeMode, pc = "exec",
         NEW e, e.plain => encryption_mode # 1,
         ~e.plain => encryption_mode = 1 /\ e.key = Current.key,
         disk.code.out # <<>>
  PROVE  Printed(e, Head(disk.code.out), disk.module) \in Outputs(cur)
  <1>1. /\ cur \in Sessions /\ up /\ disk.code \in File /\ disk.module \in File
    BY CurrentFits DEF TypeOK, ServerTypeOK
  <1> DEFINE request == Head(disk.code.out)
             reads   == Reads(e, disk.module) /\ disk.module.out # <<>>
             owner   == IF reads THEN Head(disk.module.out).s ELSE NoSession
  <1>2. request \in Request
    BY <1>1 DEF File
  <1>3. owner \in Readable(cur)
    <2>1. CASE ~reads
      BY <2>1 DEF Readable
    <2>2. CASE reads
      <3>1. disk.module # Empty
        BY <2>2 DEF Empty
      <3>2. PICK o \in Sessions : Sealed(o, cli[o], disk.module)
        BY <3>1 DEF FileSealed
      <3>3. owner = o
        BY <2>2, <3>2 DEF Sealed, ModuleOf, RequestOf
      <3>4. CASE e.plain
        <4>1. disk.module.key = Zero
          BY <2>2, <3>4 DEF Reads
        <4>2. cli[o].mode # 1 /\ cli[o].pc # "idle"
          BY <3>2, <4>1 DEF Sealed, Late
        <4>3. cli[cur].mode # 1 /\ cli[cur].pc # "idle"
          BY <3>4 DEF CodeMode
        <4> QED BY <1>1, <3>3, <4>2, <4>3 DEF Readable, Plain
      <3>5. CASE ~e.plain
        <4>1. cli[o].key = Current.key
          BY <2>2, <3>2, <3>5 DEF Reads, Sealed
        <4>2. \A r \in Sessions \ {cur} : cli[r].key # Current.key
          BY <1>1, <3>5 DEF Protocol, Keys
        <4> QED BY <3>3, <4>1, <4>2 DEF Readable
      <3> QED BY <3>4, <3>5
    <2> QED BY <2>1, <2>2
  <1>4. Printed(e, request, disk.module) = [request EXCEPT !.mod = owner]
    BY DEF Printed
  <1> HIDE DEF request, owner
  <1>5. [request EXCEPT !.mod = owner] \in Outputs(cur)
    BY <1>2, <1>3 DEF Request, Outputs
  <1> QED BY <1>4, <1>5 DEF request

\* The server's packets hold what their session can read.
LEMMA WritesReadable ==
  ASSUME TypeOK, NEW s \in Sessions, \A r \in Sessions : DownReadable(r), cli' = cli,
         NEW units \in Seq(DownUnit), SendDown(s, units),
         \A i \in 1..Len(units) : units[i].t = "pkt" => units[i].out \in Seq(Outputs(s))
  PROVE  \A r \in Sessions : DownReadable(r)'
  <1>1. s2c \in [Sessions -> Seq(DownUnit)]
    BY DEF TypeOK, WireTypeOK
  <1>2. s2c'[s] = s2c[s] \o units /\ \A r \in Sessions \ {s} : s2c'[r] = s2c[r]
    BY <1>1 DEF SendDown
  <1>3. \A r : Outputs(r)' = Outputs(r)
    BY DEF Outputs, Readable, Plain
  <1>4. \A i \in 1..Len(s2c'[s]) :
          \/ i \in 1..Len(s2c[s]) /\ s2c'[s][i] = s2c[s][i]
          \/ \E j \in 1..Len(units) : s2c'[s][i] = units[j]
    <2> DEFINE a == s2c[s]
    <2>1. a \in Seq(DownUnit) /\ Len(a) \in Nat /\ Len(units) \in Nat
      BY <1>1
    <2> HIDE DEF a
    <2>2. /\ Len(a \o units) = Len(a) + Len(units)
          /\ \A i \in 1..Len(a) + Len(units) :
               (a \o units)[i] = IF i <= Len(a) THEN a[i] ELSE units[i - Len(a)]
      BY <2>1, ConcatProperties
    <2>3. \A i \in 1..Len(a \o units) :
            \/ i \in 1..Len(a) /\ (a \o units)[i] = a[i]
            \/ \E j \in 1..Len(units) : (a \o units)[i] = units[j]
      <3> SUFFICES ASSUME NEW i \in 1..Len(a \o units), ~(i \in 1..Len(a))
                   PROVE  \E j \in 1..Len(units) : (a \o units)[i] = units[j]
        BY <2>1, <2>2
      <3>1. i - Len(a) \in 1..Len(units) /\ (a \o units)[i] = units[i - Len(a)]
        BY <2>1, <2>2
      <3> QED BY <3>1
    <2> QED BY <1>2, <2>3 DEF a
  <1>5. DownReadable(s)'
    BY <1>3, <1>4 DEF DownReadable
  <1>6. \A r \in Sessions \ {s} : DownReadable(r)'
    BY <1>2, <1>3 DEF DownReadable
  <1> QED BY <1>5, <1>6

LEMMA DeliversReadable ==
  ASSUME TypeOK, Protocol, FileSealed, CodeMode, pc = "exec", cli' = cli,
         \A r \in Sessions : DownReadable(r),
         NEW e \in EnclaveState, e.response = <<>>, e.plain => encryption_mode # 1,
         ~e.plain => encryption_mode = 1 /\ e.key = Current.key, Runs(e, disk.code),
         NEW x, NEW local \in BOOLEAN,
         Deliver(x, ResultPacket(Main(e, disk.code, disk.module), local))
  PROVE  \A r \in Sessions : DownReadable(r)'
  <1>1. /\ cur \in Sessions /\ disk.code \in File /\ disk.module \in File
        /\ disk.code.out # <<>>
    BY CurrentFits DEF TypeOK, ServerTypeOK, Runs
  <1>2. PICK text : text = Printed(e, Head(disk.code.out), disk.module)
    OBVIOUS
  <1>3. text \in Outputs(cur)
    BY <1>1, <1>2, PrintedReadable
  <1>4. PICK done : done = Main(e, disk.code, disk.module)
    OBVIOUS
  <1>5. done \in EnclaveState
    BY <1>1, <1>4, MainType
  <1>6. done.response = <<text>>
    <2>1. done.response = Append(e.response, text)
      BY <1>2, <1>4 DEF Main, EnclaveState
    <2> QED BY <2>1
  <1>7. PICK packet : packet = ResultPacket(done, local)
    OBVIOUS
  <1>8. packet \in DownUnit /\ packet.out = <<text>>
    BY <1>5, <1>6, <1>7, ResultType DEF ResultPacket, Text
  <1>9. <<text>> \in Seq(Outputs(cur)) /\ <<packet>> \in Seq(DownUnit)
    BY <1>3, <1>8
  <1>10. SendDown(cur, <<packet>>)
    BY <1>4, <1>7 DEF Deliver
  <1>11. \A i \in 1..Len(<<packet>>) : <<packet>>[i].out \in Seq(Outputs(cur))
    <2>1. \A i \in 1..Len(<<packet>>) : <<packet>>[i] = packet
      OBVIOUS
    <2> QED BY <1>8, <1>9, <2>1
  <1> QED BY <1>1, <1>9, <1>10, <1>11, WritesReadable

LEMMA ServerReadable ==
  ASSUME TypeOK, Protocol, Private, ServerStep, cli' = cli
  PROVE  \A r \in Sessions : DownReadable(r)'
  <1>0. /\ cur \in Sessions /\ FileSealed /\ CodeMode /\ NoOutput
        /\ \A r \in Sessions : DownReadable(r)
        /\ Current \in EnclaveState /\ Current.response = <<>>
    BY DEF TypeOK, ServerTypeOK, Private, NoOutput, Current
  <1>a. CASE s2c' = s2c
    <2>1. \A r : Outputs(r)' = Outputs(r)
      BY DEF Outputs, Readable, Plain
    <2> QED BY <1>0, <1>a, <2>1 DEF DownReadable
  <1>b. CASE Handshake
    <2>1. PICK e : /\ enclave' = [enclave EXCEPT ![unique_eid] = e]
                   /\ SendDown(cur, HandshakeUnits(e))
      BY <1>b, Zenon DEF Handshake
    <2>2. e \in EnclaveState
      <3>1. TypeOK'
        BY ServerStepType DEF ServerNext
      <3>2. enclave'[unique_eid] = e
        BY <2>1 DEF TypeOK, ServerTypeOK
      <3> QED BY <1>b, <3>1, <3>2 DEF TypeOK, ServerTypeOK, Handshake
    <2>3. HandshakeUnits(e) \in Seq(DownUnit)
      BY <2>2, HandshakeUnitsType
    <2>4. \A i \in 1..Len(HandshakeUnits(e)) : HandshakeUnits(e)[i].t # "pkt"
      <3> DEFINE half == [t |-> "box", v |-> e.key, cpk |-> e.cpk, spk |-> e.spk]
                 units == {TheServerKey(e.spk), half}
      <3>1. HandshakeUnits(e) = <<TheServerKey(e.spk)>> \o <<half, half>>
        BY DEF HandshakeUnits, KeyHalves
      <3>2. TheServerKey(e.spk) \in units /\ half \in units
        OBVIOUS
      <3>3. \A m \in units : m.t # "pkt"
        BY DEF TheServerKey
      <3> HIDE DEF half, units
      <3>4. HandshakeUnits(e) \in Seq(units)
        BY <3>1, <3>2
      <3> QED BY <3>3, <3>4
    <2> QED BY <1>0, <2>1, <2>3, <2>4, WritesReadable
  <1>c. CASE Execute
    <2>1. PICK st, local : /\ st = EcallExecuteStart(Current, local) /\ local = Local
                           /\ local \in BOOLEAN
      BY DEF Local
    <2>a. local <=> encryption_mode = 2
      BY <2>1 DEF Local
    <2>2. /\ st \in EnclaveState /\ st.response = <<>> /\ st.plain = local
          /\ ~local => st.key = Current.key
      <3>1. st \in EnclaveState
        BY <1>0, <2>1, EcallTypes
      <3>2. /\ st.response = Current.response /\ st.plain = local /\ st.key = Current.key
        BY <1>0, <2>1 DEF EcallExecuteStart, Bootstrap, EnclaveState
      <3> QED BY <1>0, <3>1, <3>2
    <2>3. /\ pc = "exec" /\ Runs(st, disk.code)
          /\ Deliver(EcallExecuteEnd(Main(st, disk.code, disk.module)),
                     ResultPacket(Main(st, disk.code, disk.module), local))
      BY <1>c, <2>1, Zenon DEF Execute, Started, Current
    <2>4. /\ st.plain => encryption_mode # 1
          /\ ~st.plain => encryption_mode = 1
      BY <1>0, <1>c, <2>2, <2>a DEF CodeMode, Execute
    <2> QED BY <1>0, <2>1, <2>2, <2>3, <2>4, DeliversReadable
  <1>d. CASE ExecuteOnHost
    <2>1. HostVM \in EnclaveState /\ HostVM.response = <<>> /\ HostVM.plain
      BY LoadedType, EcallTypes DEF HostVM, Bootstrap, Loaded
    <2>2. /\ pc = "exec" /\ encryption_mode = 0 /\ Runs(HostVM, disk.code)
          /\ Deliver(Current, ResultPacket(Main(HostVM, disk.code, disk.module), TRUE))
      BY <1>d DEF ExecuteOnHost, Current
    <2>3. encryption_mode # 1 /\ TRUE \in BOOLEAN
      BY <2>2
    <2>4. PICK e : e = HostVM
      OBVIOUS
    <2>5. /\ e \in EnclaveState /\ e.response = <<>> /\ e.plain /\ Runs(e, disk.code)
          /\ Deliver(Current, ResultPacket(Main(e, disk.code, disk.module), TRUE))
      BY <2>1, <2>2, <2>4, Zenon
    <2> QED BY <1>0, <2>2, <2>3, <2>5, DeliversReadable
  <1>e. CASE SendTimers
    <2>1. PICK packet : packet = Text("timers", <<>>, Zero)
      OBVIOUS
    <2>2. packet \in DownUnit /\ packet.out = <<>>
      <3>1. <<>> \in Seq(Request) /\ Zero \in Nat
        BY DEF Zero
      <3> QED BY <2>1, <3>1 DEF Text, DownUnit, Packet
    <2>3. SendDown(cur, <<packet>>) /\ <<packet>> \in Seq(DownUnit)
      BY <1>e, <2>1, <2>2 DEF SendTimers
    <2>4. \A i \in 1..Len(<<packet>>) : <<packet>>[i].out \in Seq(Outputs(cur))
      <3>1. \A i \in 1..Len(<<packet>>) : <<packet>>[i] = packet
        OBVIOUS
      <3>2. <<>> \in Seq(Outputs(cur))
        OBVIOUS
      <3> QED BY <2>2, <3>1, <3>2
    <2> QED BY <1>0, <2>3, <2>4, WritesReadable
  <1>f. CASE Accept \/ RecvMode \/ UnknownMode \/ KeysLost \/ RecvCount \/ RecvModule
             \/ ModuleMissing \/ Spin \/ RecvCode \/ UnsetLength \/ EndSession
             \/ ExecuteFails \/ HostError \/ ResultLost \/ TimersLost
    BY <1>a, <1>f
    DEF Accept, RecvMode, UnknownMode, KeysLost, RecvCount, RecvModule, ModuleMissing,
        Spin, RecvCode, UnsetLength, EndSession, ExecuteFails, HostError, ResultLost,
        TimersLost, DieWriting, Die, StartRequest, wire
  <1> QED BY <1>b, <1>c, <1>d, <1>e, <1>f DEF ServerStep

LEMMA ServerPrivate ==
  ASSUME TypeOK, Protocol, Private, ServerNext
  PROVE  Private'
  <1>0. /\ ServerStep /\ cli' = cli /\ cur \in Sessions
        /\ c2s \in [Sessions -> Seq(UpUnit)]
    BY DEF ServerNext, TypeOK, ServerTypeOK, WireTypeOK
  <1>1. \A r \in Sessions : DownReadable(r)'
    BY <1>0, ServerReadable
  <1>2. \A r \in Sessions : GotReadable(r)'
    BY <1>0 DEF Private, GotReadable, Outputs, Readable, Plain
  <1>3. CodeMode' /\ NoOutput'
    BY <1>0, CodeModeKept, NothingPrinted DEF Private
  <1>4. ASSUME up' PROVE up
    BY <1>0, <1>4
    DEF ServerStep, Accept, RecvMode, UnknownMode, Handshake, KeysLost, RecvCount,
        RecvModule, ModuleMissing, Spin, RecvCode, UnsetLength, EndSession, Execute,
        ExecuteFails, ExecuteOnHost, HostError, ResultLost, TimersLost, SendTimers,
        DieWriting, Die, Deliver, StartRequest, wire
  <1>5. ASSUME up', NEW r \in Sessions PROVE UploadSealed(r)'
    <2>1. UploadSealed(r) /\ c2s[r] \in Seq(UpUnit)
      BY <1>0, <1>4, <1>5 DEF Private
    <2>2. CASE c2s'[r] = c2s[r]
      BY <1>0, <2>1, <2>2 DEF UploadSealed
    <2>3. \/ c2s'[r] = c2s[r]
          \/ c2s[r] # <<>> /\ c2s'[r] = Tail(c2s[r])
          \/ Len(c2s[r]) >= 2 /\ c2s'[r] = Tail(Tail(c2s[r]))
      BY <1>0, ServerTakes DEF RecvModule
    <2>4. ASSUME NEW u \in Seq(UpUnit), u # <<>>
          PROVE  /\ Tail(u) \in Seq(UpUnit)
                 /\ \A i \in 1..Len(Tail(u)) : \E j \in 1..Len(u) : Tail(u)[i] = u[j]
      <3>1. /\ Len(u) \in Nat /\ Len(Tail(u)) = Len(u) - 1 /\ Tail(u) \in Seq(UpUnit)
            /\ \A i \in 1..Len(Tail(u)) : Tail(u)[i] = u[i + 1]
        BY <2>4
      <3> QED BY <3>1
    <2>5. \A i \in 1..Len(c2s'[r]) : \E j \in 1..Len(c2s[r]) : c2s'[r][i] = c2s[r][j]
      <3>1. CASE c2s[r] # <<>> /\ c2s'[r] = Tail(c2s[r])
        BY <2>1, <2>4, <3>1
      <3>2. CASE Len(c2s[r]) >= 2 /\ c2s'[r] = Tail(Tail(c2s[r]))
        <4>1. PICK u, v, w : u = c2s[r] /\ v = Tail(u) /\ w = Tail(v)
          OBVIOUS
        <4>2. /\ u \in Seq(UpUnit) /\ u # <<>> /\ v # <<>>
          <5>1. u \in Seq(UpUnit) /\ Len(u) >= 2 /\ Len(u) \in Nat
            BY <2>1, <3>2, <4>1
          <5>2. u # <<>>
            BY <5>1
          <5>3. Len(v) = Len(u) - 1 /\ Len(v) # 0
            BY <4>1, <5>1, <5>2
          <5> QED BY <5>1, <5>2, <5>3
        <4>3. v \in Seq(UpUnit) /\ \A i \in 1..Len(v) : \E j \in 1..Len(u) : v[i] = u[j]
          BY <2>4, <4>1, <4>2
        <4>4. \A i \in 1..Len(w) : \E j \in 1..Len(v) : w[i] = v[j]
          <5>1. v \in Seq(UpUnit) /\ v # <<>> /\ w = Tail(v)
            BY <4>1, <4>2, <4>3
          <5> QED BY <2>4, <5>1, Zenon
        <4> QED BY <3>2, <4>1, <4>3, <4>4
      <3> QED BY <2>3, <3>1, <3>2
    <2> QED BY <1>0, <2>1, <2>5 DEF UploadSealed
  <1>6. FileSealed'
    <2>1. CASE RecvModule
      <3>1. UploadSealed(cur)
        BY <1>0, <2>1, CurrentFits DEF Private, RecvModule
      <3> QED BY <1>0, <2>1, <3>1, FileWritten
    <2>2. CASE ~RecvModule
      BY <1>0, <2>2, ModuleFileKept DEF Private, FileSealed
    <2> QED BY <2>1, <2>2
  <1> QED BY <1>1, <1>2, <1>3, <1>5, <1>6 DEF Private

(***************************************************************************)
(* The module file of a session outlives it on the server's disk, and a    *)
(* later request may read it: but text uploaded under a key is read by no  *)
(* other session, and no session with a key reads another's, for every     *)
(* number of sessions and calls, in every mode, wherever clients die       *)
(* (App.cpp:148-170, the shim's fread, Enclave.cpp:133-164).               *)
(***************************************************************************)
THEOREM KeyedTextIsPrivate == Spec => []KeyedTextStaysOwn
  <1>1. Init => Private
    <2> SUFFICES ASSUME Init PROVE Private
      OBVIOUS
    <2>1. \A s \in Sessions : c2s[s] = <<>> /\ s2c[s] = <<>> /\ cli[s].got = <<>>
      BY DEF Init, WireInit, ClientInit
    <2>2. \A s \in Sessions : UploadSealed(s) /\ DownReadable(s) /\ GotReadable(s)
      <3>1. \A i : i \notin 1..Len(<<>>)
        OBVIOUS
      <3> QED BY <2>1, <3>1 DEF UploadSealed, DownReadable, GotReadable
    <2>3. FileSealed /\ CodeMode /\ NoOutput
      BY DEF Init, ServerInit, FileSealed, CodeMode, NoOutput, Loaded
    <2> QED BY <2>2, <2>3 DEF Private
  <1>2. TypeOK /\ TypeOK' /\ Protocol /\ KeysAgree /\ Private /\ [Next]_vars => Private'
    <2> SUFFICES ASSUME TypeOK, TypeOK', Protocol, KeysAgree, Private, [Next]_vars
                 PROVE  Private'
      OBVIOUS
    <2>1. CASE UNCHANGED vars \/ Terminated
      <3>1. UNCHANGED <<c2s, s2c, cli, up, disk, pc, cur, encryption_mode, enclave>>
        BY <2>1 DEF Terminated, vars, wire, server, host, sgx
      <3> QED BY <3>1 DEF Private, UploadSealed, DownReadable, GotReadable, FileSealed,
                 CodeMode, NoOutput, Outputs, Readable, Plain
    <2>2. CASE \E s \in Sessions : ClientAct(s)
      BY <2>2, ClientPrivate
    <2>3. CASE ServerNext
      BY <2>3, ServerPrivate
    <2> QED BY <2>1, <2>2, <2>3 DEF Next, ClientAct
  <1>3. Private => KeyedTextStaysOwn
    BY DEF Private, GotReadable, KeyedTextStaysOwn
  <1> QED BY <1>1, <1>2, <1>3, TypeCorrect, ProtocolHolds, KeysHeld, PTL DEF Spec
=============================================================================
