-------------------------- MODULE LuaGuardiaProofs --------------------------
(***************************************************************************)
(* Theorems about LuaGuardia for every set of sessions, modes, enclave     *)
(* ids, number of calls and accept queue length, with or without crashes   *)
(* and Lua errors.  The second half is about what a step does to one       *)
(* session: if the ends of a connection fit before it (Fits of Protocol),  *)
(* they fit after it.  Its lemmas are about a client's record, its streams *)
(* and the place of the server as values; one lemma for each way in which  *)
(* a client or the server moves on.                                        *)
(***************************************************************************)
EXTENDS Protocol, SequenceTheorems, FiniteSetTheorems, TLAPS

\* What the client writes is a unit of its stream (NextUnit in client.c).
LEMMA NextUnitType ==
  ASSUME ClientTypeOK, NEW s \in Sessions
  PROVE  /\ NextUnit(s) \in UpUnit
         /\ cli[s].pc \in {"file", "name", "ready"} => NextUnit(s) \in Packet
  BY DEF ClientTypeOK, ClientState, NextUnit, UpUnit, Num, Packet, TheInt, Text,
         ModuleOf, RequestOf, Request, Zero

\* The ecalls keep the enclave's globals in their types.
LEMMA EcallTypes ==
  ASSUME NEW e \in EnclaveState
  PROVE  /\ Bootstrap(e) \in EnclaveState
         /\ EcallExecuteEnd(e) \in EnclaveState
         /\ \A local \in BOOLEAN : EcallExecuteStart(e, local) \in EnclaveState
         /\ \A k \in Nat : EcallGenPkeys(e, k) \in EnclaveState
         /\ \A k \in Nat : EcallSendAesKey(e, k) \in EnclaveState
         /\ \A c \in Sessions \union {NoSession} :
              EcallRegisterClient(e, c) \in EnclaveState
  <1>1. Bootstrap(e) \in EnclaveState
    BY DEF EnclaveState, Bootstrap
  <1>2. EcallExecuteEnd(e) \in EnclaveState
    <2>1. <<>> \in Seq(Request)
      OBVIOUS
    <2> QED BY <2>1 DEF EnclaveState, EcallExecuteEnd
  <1>3. ASSUME NEW local \in BOOLEAN PROVE EcallExecuteStart(e, local) \in EnclaveState
    BY <1>1 DEF EnclaveState, EcallExecuteStart
  <1>4. ASSUME NEW k \in Nat
        PROVE  EcallGenPkeys(e, k) \in EnclaveState /\ EcallSendAesKey(e, k) \in EnclaveState
    BY DEF EnclaveState, EcallGenPkeys, EcallSendAesKey
  <1>5. ASSUME NEW c \in Sessions \union {NoSession}
        PROVE  EcallRegisterClient(e, c) \in EnclaveState
    BY DEF EnclaveState, EcallRegisterClient
  <1> QED BY <1>1, <1>2, <1>3, <1>4, <1>5

LEMMA LoadedType == Loaded \in EnclaveState
  BY DEF EnclaveState, Loaded, Zero

LEMMA MainType ==
  ASSUME NEW e \in EnclaveState, NEW code \in File, NEW module \in File, 
         code.out # <<>>
  PROVE  Main(e, code, module) \in EnclaveState
  <1>1. Head(code.out) \in Request
    BY DEF File
  <1>2. Printed(e, Head(code.out), module) \in Request
    <2>1. module.out # <<>> => Head(module.out) \in Request
      BY DEF File
    <2> QED BY <1>1, <2>1 DEF Printed, Request
  <1> DEFINE response == Append(e.response, Printed(e, Head(code.out), module))
  <1>3. response \in Seq(Request)
    BY <1>2 DEF EnclaveState
  <1>4. Main(e, code, module) = [e EXCEPT !.response = response, !.open = @ /\ ~e.plain]
    BY DEF Main, response
  <1> HIDE DEF response
  <1> QED BY <1>3, <1>4 DEF EnclaveState

LEMMA ResultType ==
  ASSUME NEW e \in EnclaveState, NEW local \in BOOLEAN
  PROVE  ResultPacket(e, local) \in DownUnit
  BY DEF ResultPacket, EnclaveState, DownUnit, Packet, Text, Zero

LEMMA InitType == Init => TypeOK
  <1> SUFFICES ASSUME Init PROVE TypeOK
    OBVIOUS
  <1>1. WireTypeOK
    BY DEF Init, WireInit, WireTypeOK
  <1>2. ClientTypeOK
    BY DEF Init, ClientInit, ClientTypeOK, ClientState, ClientPc, Zero
  <1>3. ServerTypeOK
    <2>1. enclave \in [Eids -> EnclaveState]
      BY LoadedType DEF Init, ServerInit
    <2> QED BY <2>1 DEF Init, ServerInit, ServerTypeOK, ServerPc, File, Empty, Zero
  <1> QED BY <1>1, <1>2, <1>3 DEF TypeOK

-----------------------------------------------------------------------------
(* Types: the steps.                                                       *)

\* Writing to a socket and reading from it keep both streams typed.
LEMMA StreamTypes ==
  ASSUME WireTypeOK, NEW s \in Sessions
  PROVE  /\ \A u \in UpUnit : SendUp(s, u) => c2s' \in [Sessions -> Seq(UpUnit)]
         /\ \A us \in Seq(DownUnit) : SendDown(s, us) => s2c' \in [Sessions -> Seq(DownUnit)]
         /\ c2s[s] # <<>> /\ TakeUp(s) => c2s' \in [Sessions -> Seq(UpUnit)]
         /\ s2c[s] # <<>> /\ TakeDown(s) => s2c' \in [Sessions -> Seq(DownUnit)]
  <1>1. ASSUME NEW u \in UpUnit, SendUp(s, u) PROVE c2s' \in [Sessions -> Seq(UpUnit)]
    BY <1>1 DEF WireTypeOK, SendUp
  <1>2. ASSUME NEW us \in Seq(DownUnit), SendDown(s, us)
        PROVE  s2c' \in [Sessions -> Seq(DownUnit)]
    BY <1>2 DEF WireTypeOK, SendDown
  <1>3. ASSUME c2s[s] # <<>>, TakeUp(s) PROVE c2s' \in [Sessions -> Seq(UpUnit)]
    BY <1>3 DEF WireTypeOK, TakeUp
  <1>4. ASSUME s2c[s] # <<>>, TakeDown(s) PROVE s2c' \in [Sessions -> Seq(DownUnit)]
    BY <1>4 DEF WireTypeOK, TakeDown
  <1> QED BY <1>1, <1>2, <1>3, <1>4

\* What a reader finds has the type its code expects.
LEMMA HeadTypes ==
  ASSUME WireTypeOK, NEW s \in Sessions
  PROVE  /\ ArrivedUp(s, "num") => Head(c2s[s]).v \in Nat
         /\ ArrivedUp(s, "cpk") => Head(c2s[s]).v \in Sessions
         /\ ArrivedUp(s, "pkt") => Head(c2s[s]) \in Packet
         /\ ArrivedDown(s, {"spk"}) => Head(s2c[s]).v \in Nat
         /\ ArrivedDown(s, {"box"}) => Head(s2c[s]) \in Box
         /\ ArrivedDown(s, {"pkt"}) => Head(s2c[s]) \in Packet
  <1>1. c2s[s] # <<>> => Head(c2s[s]) \in UpUnit
    BY DEF WireTypeOK
  <1>2. s2c[s] # <<>> => Head(s2c[s]) \in DownUnit
    BY DEF WireTypeOK
  <1> QED
    BY <1>1, <1>2 DEF ArrivedUp, ArrivedDown, UpUnit, DownUnit, Num, ClientKey,
       ServerKey, Box, Packet

LEMMA ClientStepType ==
  ASSUME TypeOK, NEW s \in Sessions, Step(s) \/ Kill(s)
  PROVE  TypeOK'
  <1> USE DEF TypeOK
  <1>0. /\ WireTypeOK /\ ClientTypeOK
        /\ cli[s] \in ClientState
    BY DEF ClientTypeOK
  <1>1. ServerTypeOK'
    BY DEF ServerTypeOK, Step, Kill, server, host, sgx
  <1>b. ASSUME NEW p \in ClientPc, cli' = [cli EXCEPT ![s].pc = p]
        PROVE  ClientTypeOK'
    BY <1>0, <1>b DEF ClientTypeOK, ClientState
  <1>2. CASE Connect(s)
    <2>1. PICK m \in Modes, mod \in BOOLEAN :
            /\ cli' = [cli EXCEPT ![s].pc = IF m = 1 THEN "handshake" ELSE "count",
                                  ![s].mode = m, ![s].module = mod]
            /\ SendUp(s, TheInt(m))
      BY <1>2 DEF Connect
    <2>2. m \in Nat /\ TheInt(m) \in UpUnit
      BY ModesAssumption DEF TheInt, UpUnit, Num
    <2>3. ClientTypeOK'
      BY <1>0, <2>1, <2>2 DEF ClientTypeOK, ClientState, ClientPc
    <2>4. c2s' \in [Sessions -> Seq(UpUnit)]
      BY <1>0, <2>1, <2>2, StreamTypes
    <2>5. WireTypeOK'
      BY <1>2, <2>4 DEF Connect, WireTypeOK
    <2> QED BY <1>1, <2>3, <2>5
  <1>3. CASE SendPublicKey(s)
    <2>1. TheClientKey(s) \in UpUnit
      BY DEF TheClientKey, UpUnit, ClientKey
    <2>2. c2s' \in [Sessions -> Seq(UpUnit)]
      BY <1>0, <1>3, <2>1, StreamTypes DEF SendPublicKey
    <2>3. ClientTypeOK'
      BY <1>b, <1>3 DEF SendPublicKey, ClientPc
    <2> QED BY <1>1, <1>3, <2>2, <2>3 DEF SendPublicKey, WireTypeOK
  <1>4. CASE RecvServerKey(s)
    <2>1. CASE ArrivedDown(s, {"spk"}) /\ TakeDown(s)
               /\ cli' = [cli EXCEPT ![s].pc = "half1", ![s].spk = Head(s2c[s]).v]
      <3>1. Head(s2c[s]).v \in Nat /\ s2c' \in [Sessions -> Seq(DownUnit)]
        BY <1>0, <2>1, HeadTypes, StreamTypes DEF ArrivedDown
      <3>2. ClientTypeOK'
        BY <1>0, <2>1, <3>1 DEF ClientTypeOK, ClientState, ClientPc
      <3> QED BY <1>1, <1>4, <3>1, <3>2 DEF RecvServerKey, WireTypeOK
    <2>2. CASE cli' = [cli EXCEPT ![s].pc = "half1"] /\ UNCHANGED s2c
      <3>1. ClientTypeOK'
        BY <1>b, <2>2 DEF ClientPc
      <3> QED BY <1>1, <1>4, <2>2, <3>1 DEF RecvServerKey, WireTypeOK
    <2> QED BY <1>4, <2>1, <2>2 DEF RecvServerKey
  <1>5. CASE RecvHalf(s)
    <2>1. s2c' \in [Sessions -> Seq(DownUnit)]
      BY <1>0, <1>5, StreamTypes DEF RecvHalf, ArrivedDown, WireTypeOK
    <2> DEFINE v == Opened(s, Head(s2c[s]))
    <2>2. v \in Nat
      <3>1. Head(s2c[s]).v \in Nat
        BY <1>0, <1>5, HeadTypes DEF Box, RecvHalf
      <3> QED BY <3>1 DEF Opened, Zero
    <2>3. cli' = IF cli[s].pc = "half1"
                 THEN [cli EXCEPT ![s].pc = "half2", ![s].half = v]
                 ELSE [cli EXCEPT ![s].pc = "count",
                                  ![s].key = IF v = cli[s].half THEN v ELSE Zero]
      BY <1>5 DEF RecvHalf
    <2> HIDE DEF v
    <2>4. ClientTypeOK'
      BY <1>0, <2>2, <2>3 DEF ClientTypeOK, ClientState, ClientPc, Zero
    <2> QED BY <1>1, <1>5, <2>1, <2>4 DEF RecvHalf, WireTypeOK
  <1>6. CASE SendModules(s)
    <2>1. c2s' \in [Sessions -> Seq(UpUnit)]
      BY <1>0, <1>6, NextUnitType, StreamTypes DEF SendModules
    <2>2. ClientTypeOK'
      BY <1>b, <1>6 DEF SendModules, ClientPc
    <2> QED BY <1>1, <1>6, <2>1, <2>2 DEF SendModules, WireTypeOK
  <1>7. CASE Call(s)
    <2>1. c2s' \in [Sessions -> Seq(UpUnit)]
      BY <1>0, <1>7, NextUnitType, StreamTypes DEF Call, WireTypeOK
    <2>2. ClientTypeOK'
      <3>1. CASE cli' = [cli EXCEPT ![s].pc = "response", ![s].calls = @ + 1]
        <4>1. cli[s].calls + 1 \in Nat
          BY <1>0 DEF ClientState
        <4>2. cli' = [cli EXCEPT ![s].pc = "response", ![s].calls = cli[s].calls + 1]
          BY <1>0, <3>1 DEF ClientTypeOK
        <4> QED BY <1>0, <4>1, <4>2 DEF ClientTypeOK, ClientState, ClientPc
      <3>2. CASE cli' = [cli EXCEPT ![s].pc = "timers"]
        BY <1>b, <3>2 DEF ClientPc
      <3> QED BY <1>7, <3>1, <3>2 DEF Call
    <2> QED BY <1>1, <1>7, <2>1, <2>2 DEF Call, WireTypeOK
  <1>8. CASE RecvResponse(s)
    <2>1. s2c' \in [Sessions -> Seq(DownUnit)]
      BY <1>0, <1>8, StreamTypes DEF RecvResponse, ArrivedDown, WireTypeOK
    <2>2. PICK r \in Reply : cli' = [cli EXCEPT ![s].pc = "timers", ![s].got = Append(@, r)]
      <3>1. CASE ArrivedDown(s, {"pkt"}) /\ cli' = [cli EXCEPT ![s].pc = "timers",
                   ![s].got = Append(@, View(Head(s2c[s]), cli[s].key))]
        <4>1. View(Head(s2c[s]), cli[s].key) \in Reply
          BY <1>0, <3>1, HeadTypes DEF View, Packet, Reply
        <4> QED BY <3>1, <4>1
      <3>2. CASE cli' = [cli EXCEPT ![s].pc = "timers",
                   ![s].got = Append(@, [what |-> "eof", out |-> <<>>])]
        <4>1. [what |-> "eof", out |-> <<>>] \in Reply
          BY DEF Reply
        <4> QED BY <3>2, <4>1
      <3> QED BY <1>8, <3>1, <3>2 DEF RecvResponse
    <2>3. ClientTypeOK'
      <3>1. Append(cli[s].got, r) \in Seq(Reply)
        BY <1>0 DEF ClientState
      <3>2. cli' = [cli EXCEPT ![s].pc = "timers", ![s].got = Append(cli[s].got, r)]
        BY <1>0, <2>2 DEF ClientTypeOK
      <3> QED BY <1>0, <3>1, <3>2 DEF ClientTypeOK, ClientState, ClientPc
    <2> QED BY <1>1, <1>8, <2>1, <2>3 DEF RecvResponse, WireTypeOK
  <1>9. CASE RecvTimers(s)
    <2>1. s2c' \in [Sessions -> Seq(DownUnit)]
      BY <1>0, <1>9, StreamTypes DEF RecvTimers, ArrivedDown, WireTypeOK
    <2>2. ClientTypeOK'
      BY <1>b, <1>9 DEF RecvTimers, ClientPc
    <2> QED BY <1>1, <1>9, <2>1, <2>2 DEF RecvTimers, WireTypeOK
  <1>10. CASE Leave(s) /\ UNCHANGED c2s
    <2>1. ClientTypeOK'
      BY <1>b, <1>10 DEF Leave, ClientPc
    <2> QED BY <1>1, <1>10, <2>1 DEF Leave, WireTypeOK
  <1>11. CASE Crash(s)
    <2>1. ClientTypeOK'
      BY <1>b, <1>11 DEF Crash, Leave, ClientPc
    <2>2. c2s' \in [Sessions -> Seq(UpUnit)]
      <3>1. CASE UNCHANGED c2s
        BY <3>1 DEF WireTypeOK
      <3>2. CASE cli[s].pc \in {"file", "name", "ready"}
                 /\ SendUp(s, [NextUnit(s) EXCEPT !.cut = TRUE])
        <4>1. [NextUnit(s) EXCEPT !.cut = TRUE] \in UpUnit
          BY <3>2, NextUnitType DEF Packet, UpUnit
        <4> QED BY <1>0, <3>2, <4>1, StreamTypes
      <3> QED BY <1>11, <3>1, <3>2 DEF Crash
    <2> QED BY <1>1, <1>11, <2>1, <2>2 DEF Crash, Leave, WireTypeOK
  <1>12. CASE CrashConnecting(s)
    <2>1. ClientTypeOK'
      BY <1>b, <1>12 DEF CrashConnecting, ClientPc
    <2> QED BY <1>1, <1>12, <2>1 DEF CrashConnecting, WireTypeOK
  <1> QED
    BY <1>2, <1>3, <1>4, <1>5, <1>6, <1>7, <1>8, <1>9, <1>10, <1>11, <1>12
    DEF Step, Kill, ClientStep, Close, Fail

\* l_setup_enclave leaves well-typed enclaves.
LEMMA SetupType ==
  ASSUME ServerTypeOK, NEW e \in Eids, NEW globals \in EnclaveState,
         SetupEnclave(e, globals)
  PROVE  /\ live' \subseteq Eids
         /\ unique_eid' \in Eids
         /\ enclave' \in [Eids -> EnclaveState]
  BY DEF ServerTypeOK, SetupEnclave

\* main's dispatch.
LEMMA StartSessionType ==
  ASSUME ServerTypeOK, NEW mode \in Nat, StartSession(mode),
         UNCHANGED <<cur, disk, ran>>
  PROVE  ServerTypeOK'
  <1>1. encryption_mode' \in Nat /\ code_len' \in {"unset", "set"}
    BY DEF StartSession
  <1>2. CASE mode = 1
    <2>1. PICK e \in Eids : SetupEnclave(e, EcallGenPkeys(EcallInit(Loaded), fresh + 1))
      BY <1>2 DEF StartSession
    <2>2. fresh + 1 \in Nat
      BY DEF ServerTypeOK
    <2>3. EcallGenPkeys(EcallInit(Loaded), fresh + 1) \in EnclaveState
      BY <2>2, LoadedType, EcallTypes DEF EcallInit
    <2>4. /\ live' \subseteq Eids
          /\ unique_eid' \in Eids
          /\ enclave' \in [Eids -> EnclaveState]
      BY <2>1, <2>3, SetupType
    <2>5. fresh' = fresh + 1 /\ pc' = "key"
      BY <1>2 DEF StartSession
    <2> QED BY <1>1, <2>2, <2>4, <2>5 DEF ServerTypeOK, ServerPc
  <1>3. CASE mode # 1
    BY <1>1, <1>3 DEF StartSession, ServerTypeOK, ServerPc, sgx
  <1> QED BY <1>2, <1>3

\* The request loop writes code.lua and, in the local mode, creates an enclave.
LEMMA StartRequestType ==
  ASSUME ServerTypeOK, NEW code \in File, StartRequest(code),
         code_len' \in {"unset", "set"}
  PROVE  ServerTypeOK'
  <1>1. /\ live' \subseteq Eids
        /\ unique_eid' \in Eids
        /\ enclave' \in [Eids -> EnclaveState]
    <2>1. CASE Local
      <3>1. PICK e \in Eids : SetupEnclave(e, EcallInit(Loaded))
        BY <2>1 DEF StartRequest
      <3> QED BY <3>1, SetupType, LoadedType, EcallTypes DEF EcallInit
    <2>2. CASE ~Local
      BY <2>2 DEF StartRequest, ServerTypeOK
    <2> QED BY <2>1, <2>2
  <1>2. disk' \in [code : File, module : File]
    BY DEF StartRequest, ServerTypeOK
  <1> QED BY <1>1, <1>2 DEF StartRequest, ServerTypeOK, ServerPc

LEMMA EmptyType == Empty \in File
  BY DEF Empty, File, Zero

LEMMA DeliverType ==
  ASSUME TypeOK, NEW e \in EnclaveState, NEW p \in DownUnit,
         disk.code.out # <<>>, Deliver(e, p)
  PROVE  WireTypeOK' /\ ServerTypeOK'
  <1>1. WireTypeOK'
    <2>1. <<p>> \in Seq(DownUnit)
      OBVIOUS
    <2>2. s2c' \in [Sessions -> Seq(DownUnit)]
      BY <2>1, StreamTypes DEF Deliver, TypeOK, ServerTypeOK
    <2> QED BY <2>2 DEF Deliver, TypeOK, WireTypeOK
  <1>2. ServerTypeOK'
    <2>1. Head(disk.code.out) \in Request
      BY DEF TypeOK, ServerTypeOK, File
    <2>2. ran' \in Seq(Request)
      BY <2>1 DEF Deliver, TypeOK, ServerTypeOK
    <2>3. enclave' \in [Eids -> EnclaveState]
      BY DEF Deliver, TypeOK, ServerTypeOK
    <2> QED BY <2>2, <2>3 DEF Deliver, TypeOK, ServerTypeOK, ServerPc
  <1> QED BY <1>1, <1>2

LEMMA DieType ==
  ASSUME TypeOK, Die
  PROVE  WireTypeOK' /\ ServerTypeOK'
  BY DEF TypeOK, Die, WireTypeOK, ServerTypeOK, ServerPc, sgx

\* The units of a handshake.
LEMMA HandshakeUnitsType ==
  ASSUME NEW e \in EnclaveState
  PROVE  HandshakeUnits(e) \in Seq(DownUnit)
  <1> DEFINE half == [t |-> "box", v |-> e.key, cpk |-> e.cpk, spk |-> e.spk]
  <1>1. half \in DownUnit
    BY DEF EnclaveState, DownUnit, Box
  <1>2. TheServerKey(e.spk) \in DownUnit
    BY DEF EnclaveState, DownUnit, ServerKey, TheServerKey
  <1>3. HandshakeUnits(e) = <<TheServerKey(e.spk)>> \o <<half, half>>
    BY DEF HandshakeUnits, KeyHalves
  <1> HIDE DEF half
  <1> QED BY <1>1, <1>2, <1>3

\* Two units can be consumed from a stream that holds two.
LEMMA TailTwice ==
  ASSUME NEW S, NEW s \in Seq(S), Len(s) >= 2
  PROVE  Tail(Tail(s)) \in Seq(S)
  <1> DEFINE n == Len(s)
  <1>1. n \in Nat /\ n >= 2 /\ Len(Tail(s)) = n - 1
    BY LenProperties
  <1>2. n - 1 # 0
    <2> HIDE DEF n
    <2> QED BY <1>1
  <1>3. Tail(s) # <<>>
    BY <1>1, <1>2
  <1> QED BY <1>1, <1>3, HeadTailProperties

LEMMA ServerStepType ==
  ASSUME TypeOK, ServerNext
  PROVE  TypeOK'
  <1>0. WireTypeOK /\ ServerTypeOK /\ cur \in Sessions
    BY DEF TypeOK, ServerTypeOK
  <1>a. enclave[unique_eid] \in EnclaveState /\ disk.code \in File /\ disk.module \in File
    BY <1>0 DEF ServerTypeOK
  <1>b. Started \in EnclaveState /\ HostVM \in EnclaveState
    <2>1. Local \in BOOLEAN
      BY DEF Local
    <2> QED BY <1>a, <2>1, EcallTypes, LoadedType DEF Started, HostVM
  <1>c. c2s[cur] # <<>> => c2s[cur] \in Seq(UpUnit) /\ Head(c2s[cur]) \in UpUnit
    BY <1>0 DEF WireTypeOK
  <1>1. ClientTypeOK'
    BY DEF TypeOK, ClientTypeOK, ServerNext
  <1>2. CASE Accept
    <2>1. Head(backlog) \in Sessions /\ Tail(backlog) \in Seq(Sessions)
      BY <1>0, <1>2 DEF Accept, WireTypeOK
    <2> QED BY <1>0, <1>1, <1>2, <2>1
        DEF Accept, TypeOK, WireTypeOK, ServerTypeOK, ServerPc, sgx
  <1>3. CASE RecvMode
    <2>1. c2s' \in [Sessions -> Seq(UpUnit)]
      BY <1>0, <1>3, StreamTypes DEF RecvMode, ArrivedUp, WireTypeOK
    <2>2. PICK mode \in Nat : StartSession(mode)
      BY <1>0, <1>3 DEF RecvMode, ServerTypeOK
    <2>3. ServerTypeOK'
      BY <1>0, <1>3, <2>2, StartSessionType DEF RecvMode
    <2> QED BY <1>0, <1>1, <1>3, <2>1, <2>3 DEF RecvMode, TypeOK, WireTypeOK
  <1>4. CASE Die
    BY <1>1, <1>4, DieType DEF TypeOK
  <1>5. CASE Handshake
    <2>1. c2s' \in [Sessions -> Seq(UpUnit)]
      BY <1>0, <1>5, StreamTypes DEF Handshake, ArrivedUp, WireTypeOK
    <2> DEFINE cpk == IF c2s[cur] = <<>> THEN NoSession ELSE Head(c2s[cur]).v
               e   == EcallSendAesKey(
                        EcallRegisterClient(enclave[unique_eid], cpk), fresh + 1)
    <2>2. cpk \in Sessions \union {NoSession}
      BY <1>0, <1>5, HeadTypes DEF Handshake, EofUp
    <2>3. fresh + 1 \in Nat
      BY <1>0 DEF ServerTypeOK
    <2> HIDE DEF cpk
    <2>4. EcallRegisterClient(enclave[unique_eid], cpk) \in EnclaveState
      BY <1>a, <2>2, EcallTypes
    <2>5. e \in EnclaveState
      BY <2>3, <2>4, EcallTypes
    <2>6. /\ enclave' = [enclave EXCEPT ![unique_eid] = e]
          /\ SendDown(cur, HandshakeUnits(e))
      BY <1>5 DEF Handshake, cpk
    <2> HIDE DEF e
    <2>7. s2c' \in [Sessions -> Seq(DownUnit)]
      BY <1>0, <2>5, <2>6, HandshakeUnitsType, StreamTypes
    <2>8. enclave' \in [Eids -> EnclaveState]
      BY <1>0, <2>5, <2>6 DEF ServerTypeOK
    <2> QED BY <1>0, <1>1, <1>5, <2>1, <2>3, <2>7, <2>8
        DEF Handshake, TypeOK, WireTypeOK, ServerTypeOK, ServerPc
  <1>6. CASE RecvCount
    <2>1. c2s' \in [Sessions -> Seq(UpUnit)]
      BY <1>0, <1>6, StreamTypes DEF RecvCount, ArrivedUp, WireTypeOK
    <2>2. rst' \subseteq Sessions
      BY <1>0, <1>6 DEF RecvCount, WireTypeOK
    <2>3. pc' \in ServerPc
      BY <1>6 DEF RecvCount, ServerPc
    <2> QED BY <1>0, <1>1, <1>6, <2>1, <2>2, <2>3
        DEF RecvCount, TypeOK, WireTypeOK, ServerTypeOK, sgx
  <1>7. CASE RecvModule
    <2> DEFINE units == c2s[cur]
    <2>1. units \in Seq(UpUnit) /\ Len(units) \in Nat
      BY <1>0, LenProperties DEF WireTypeOK
    <2>a. Len(units) >= 2
      BY <1>7 DEF RecvModule
    <2>b. units[1].t = "pkt"
      BY <1>7 DEF RecvModule
    <2>2. c2s[cur][1] \in Packet
      BY <2>1, <2>a, <2>b DEF UpUnit, Num, ClientKey, Packet
    <2>3. Tail(Tail(c2s[cur])) \in Seq(UpUnit)
      BY <2>1, <2>a, TailTwice
    <2>4. c2s' \in [Sessions -> Seq(UpUnit)]
      BY <1>0, <1>7, <2>3 DEF RecvModule, WireTypeOK
    <2>5. [out |-> c2s[cur][1].out, key |-> c2s[cur][1].key] \in File
      BY <2>2 DEF Packet, File
    <2>6. disk' \in [code : File, module : File]
      BY <1>0, <1>7, <2>5 DEF RecvModule, ServerTypeOK
    <2> QED BY <1>0, <1>1, <1>7, <2>4, <2>6
        DEF RecvModule, TypeOK, WireTypeOK, ServerTypeOK, ServerPc, sgx
  <1>8. CASE Spin
    BY <1>0, <1>1, <1>8 DEF Spin, TypeOK, WireTypeOK, ServerTypeOK, ServerPc, sgx
  <1>9. CASE RecvCode
    <2>1. Head(c2s[cur]) \in Packet
      BY <1>0, <1>9, HeadTypes DEF RecvCode
    <2>2. [out |-> Head(c2s[cur]).out, key |-> Head(c2s[cur]).key] \in File
      BY <2>1 DEF Packet, File
    <2>3. ServerTypeOK'
      BY <1>0, <1>9, <2>2, StartRequestType DEF RecvCode
    <2>4. c2s' \in [Sessions -> Seq(UpUnit)]
      BY <1>0, <1>9, StreamTypes DEF RecvCode, ArrivedUp
    <2> QED BY <1>0, <1>1, <1>9, <2>3, <2>4
        DEF RecvCode, StartRequest, TypeOK, WireTypeOK
  <1>10. CASE UnsetLength /\ StartRequest(Empty)
    <2>1. ServerTypeOK' \/ Die
      BY <1>0, <1>10, EmptyType, StartRequestType DEF UnsetLength, ServerTypeOK
    <2> QED BY <1>0, <1>1, <1>4, <1>10, <2>1
        DEF UnsetLength, StartRequest, TypeOK, WireTypeOK
  <1>11. CASE EndSession
    BY <1>0, <1>1, <1>11
    DEF EndSession, DestroyEnclave, TypeOK, WireTypeOK, ServerTypeOK, ServerPc, wire
  <1>12. CASE Execute
    <2>1. disk.code.out # <<>>
      BY <1>12 DEF Execute, Runs
    <2> DEFINE done == Main(Started, disk.code, disk.module)
    <2>2. done \in EnclaveState
      BY <1>a, <1>b, <2>1, MainType
    <2>3. Deliver(EcallExecuteEnd(done), ResultPacket(done, Local))
      BY <1>12 DEF Execute
    <2> HIDE DEF done
    <2>4. EcallExecuteEnd(done) \in EnclaveState
      BY <2>2, EcallTypes
    <2>5. ResultPacket(done, Local) \in DownUnit
      BY <2>2, ResultType DEF Local
    <2> QED BY <1>1, <2>1, <2>3, <2>4, <2>5, DeliverType DEF TypeOK
  <1>13. CASE ExecuteFails
    <2>1. [Started EXCEPT !.crashed = TRUE] \in EnclaveState
      BY <1>b DEF EnclaveState
    <2>2. enclave' \in [Eids -> EnclaveState]
      BY <1>0, <1>13, <2>1 DEF ExecuteFails, ServerTypeOK
    <2> QED BY <1>0, <1>1, <1>13, <2>2
        DEF ExecuteFails, TypeOK, WireTypeOK, ServerTypeOK, ServerPc, wire
  <1>14. CASE ExecuteOnHost
    <2>1. disk.code.out # <<>>
      BY <1>14 DEF ExecuteOnHost, Runs
    <2> DEFINE done == Main(HostVM, disk.code, disk.module)
    <2>2. done \in EnclaveState
      BY <1>a, <1>b, <2>1, MainType
    <2>3. Deliver(enclave[unique_eid], ResultPacket(done, TRUE))
      BY <1>14 DEF ExecuteOnHost
    <2> HIDE DEF done
    <2>4. ResultPacket(done, TRUE) \in DownUnit
      BY <2>2, ResultType
    <2> QED BY <1>1, <1>a, <2>1, <2>3, <2>4, DeliverType DEF TypeOK
  <1>15. CASE SendTimers
    <2>1. <<Text("timers", <<>>, Zero)>> \in Seq(DownUnit)
      BY DEF Text, Zero, DownUnit, Packet
    <2>2. s2c' \in [Sessions -> Seq(DownUnit)]
      BY <1>0, <1>15, <2>1, StreamTypes DEF SendTimers
    <2> QED BY <1>0, <1>1, <1>15, <2>2
        DEF SendTimers, DestroyEnclave, TypeOK, WireTypeOK, ServerTypeOK, ServerPc
  <1> QED
    BY <1>2, <1>3, <1>4, <1>5, <1>6, <1>7, <1>8, <1>9, <1>10, <1>11, <1>12, <1>13,
       <1>14, <1>15
    DEF ServerNext, ServerStep, UnknownMode, KeysLost, ModuleMissing, UnsetLength,
        HostError, ResultLost, TimersLost, DieWriting

(***************************************************************************)
(* Every variable stays in its type, for every instance of the constants.  *)
(***************************************************************************)
THEOREM TypeCorrect == Spec => []TypeOK
  <1>1. TypeOK /\ [Next]_vars => TypeOK'
    <2> SUFFICES ASSUME TypeOK, [Next]_vars PROVE TypeOK'
      OBVIOUS
    <2>1. CASE UNCHANGED vars
      BY <2>1 DEF vars, wire, server, host, sgx, TypeOK, WireTypeOK, ClientTypeOK,
         ServerTypeOK
    <2>2. CASE Next
      BY <2>1, <2>2, ClientStepType, ServerStepType DEF Next, Terminated
    <2> QED BY <2>1, <2>2
  <1> QED BY <1>1, InitType, PTL DEF Spec

-----------------------------------------------------------------------------
(* The life of enclaves.                                                   *)

LEMMA OneEnclaveStep ==
  ASSUME TypeOK, OneEnclave, [Next]_vars
  PROVE  OneEnclave'
  <1> USE DEF OneEnclave, EnclaveServes
  <1>0. CASE UNCHANGED vars
    BY <1>0 DEF vars, wire, server, host, sgx
  <1>1. ASSUME NEW s \in Sessions, Step(s) \/ Kill(s) PROVE OneEnclave'
    <2>1. up' = up /\ UNCHANGED server
      BY <1>1 DEF Step, Kill, ClientStep, Connect, SendPublicKey, RecvServerKey, RecvHalf,
         SendModules, Call, RecvResponse, RecvTimers, Close, Fail, Leave, Crash,
         CrashConnecting
    <2> QED BY <2>1 DEF server, host, sgx
  <1>2. CASE Accept
    BY <1>2 DEF Accept, sgx
  <1>3. CASE RecvMode
    <2>1. up' = up /\ pc = "mode"
      BY <1>3 DEF RecvMode
    <2>2. PICK mode : StartSession(mode)
      BY <1>3 DEF RecvMode
    <2>3. CASE mode = 1
      BY <2>1, <2>2, <2>3 DEF StartSession, SetupEnclave
    <2>4. CASE mode # 1
      BY <2>1, <2>2, <2>4 DEF StartSession, sgx
    <2> QED BY <2>3, <2>4
  <1>4. CASE Die
    BY <1>4 DEF Die
  <1>5. CASE Handshake \/ RecvCount \/ RecvModule \/ Spin
    BY <1>5 DEF Handshake, RecvCount, RecvModule, Spin, sgx
  <1>6. CASE pc = "code" /\ up' = up /\ \E code : StartRequest(code)
    BY <1>6 DEF StartRequest, Local, SetupEnclave
  <1>7. CASE EndSession
    BY <1>7 DEF EndSession, DestroyEnclave, wire
  <1>8. CASE Execute \/ ExecuteFails \/ ExecuteOnHost
    BY <1>8 DEF Execute, ExecuteFails, ExecuteOnHost, Deliver, wire
  <1>9. CASE SendTimers
    BY <1>9 DEF SendTimers, Local, DestroyEnclave
  <1>10. ASSUME ServerNext PROVE OneEnclave'
    BY <1>2, <1>3, <1>4, <1>5, <1>6, <1>7, <1>8, <1>9, <1>10
    DEF ServerNext, ServerStep, UnknownMode, KeysLost, ModuleMissing, RecvCode,
        UnsetLength, HostError, ResultLost, TimersLost, DieWriting, StartRequest
  <1> QED BY <1>0, <1>1, <1>10 DEF Next, Terminated

(***************************************************************************)
(* Exactly the enclave that serves is live (l_setup_enclave and            *)
(* sgx_destroy_enclave in main and spawn_lua_enclave), also when clients   *)
(* die and when code raises errors.  OneEnclave is inductive as it stands. *)
(***************************************************************************)
THEOREM EnclavesNeverLeak == Spec => []OneEnclave
  <1>1. Init => OneEnclave
    BY DEF Init, WireInit, ServerInit, OneEnclave, EnclaveServes
  <1> QED BY <1>1, OneEnclaveStep, TypeCorrect, PTL DEF Spec

-----------------------------------------------------------------------------
(* Streams and their units.                                                *)

LEMMA Places ==
  ASSUME NEW c \in ClientState
  PROVE  /\ CountAt(c) \in Nat /\ CodeAt(c) \in Nat /\ Written(c) \in Nat
         /\ \A p : Reading(c, p) \in Nat
         /\ CountAt(c) >= 1 /\ CodeAt(c) > CountAt(c)
         /\ c.mode = 1 => CountAt(c) = 2
         /\ c.mode # 1 => CountAt(c) = 1
         /\ c.module => CodeAt(c) = CountAt(c) + 3
         /\ ~c.module => CodeAt(c) = CountAt(c) + 1
  BY DEF CountAt, CodeAt, Written, Reading, ClientState

LEMMA LineGrows ==
  ASSUME NEW s, NEW c, NEW u \in Seq(UpUnit), NEW i \in Nat, NEW m \in UpUnit,
         NEW gone, Line(s, c, u, i, FALSE),
         m = Unit(s, c, i + Len(u)) \/ (gone /\ CutOf(m, Unit(s, c, i + Len(u))))
  PROVE  Line(s, c, Append(u, m), i, gone)
  <1> DEFINE v == Append(u, m)
  <1>1. /\ Len(v) = Len(u) + 1 /\ Len(u) \in Nat
        /\ \A j \in 1..Len(u) : v[j] = u[j]
        /\ v[Len(u) + 1] = m
    OBVIOUS
  <1>2. ASSUME NEW j \in 1..Len(v)
        PROVE  \/ v[j] = Unit(s, c, i + j - 1)
               \/ gone /\ j = Len(v) /\ CutOf(v[j], Unit(s, c, i + j - 1))
    <2>1. CASE j = Len(u) + 1
      <3>1. i + j - 1 = i + Len(u)
        BY <1>1, <2>1
      <3> QED BY <1>1, <2>1, <3>1
    <2>2. CASE j # Len(u) + 1
      <3>1. j \in 1..Len(u)
        BY <1>1, <2>2
      <3> QED BY <1>1, <3>1 DEF Line
    <2> QED BY <2>1, <2>2
  <1> QED BY <1>2 DEF Line

LEMMA LineShrinks ==
  ASSUME NEW s, NEW c, NEW u \in Seq(UpUnit), NEW i \in Nat, NEW gone,
         Line(s, c, u, i, gone), u # <<>>
  PROVE  Line(s, c, Tail(u), i + 1, gone)
  <1> DEFINE v == Tail(u)
  <1>1. /\ Len(v) = Len(u) - 1 /\ Len(u) \in Nat
        /\ \A j \in 1..Len(v) : v[j] = u[j + 1] /\ j + 1 \in 1..Len(u)
    OBVIOUS
  <1> HIDE DEF v
  <1>2. ASSUME NEW j \in 1..Len(v)
        PROVE  \/ v[j] = Unit(s, c, i + 1 + j - 1)
               \/ gone /\ j = Len(v) /\ CutOf(v[j], Unit(s, c, i + 1 + j - 1))
    <2>1. i + 1 + j - 1 = i + (j + 1) - 1
      OBVIOUS
    <2>2. \/ u[j + 1] = Unit(s, c, i + (j + 1) - 1)
          \/ gone /\ j + 1 = Len(u) /\ CutOf(u[j + 1], Unit(s, c, i + (j + 1) - 1))
      BY <1>1 DEF Line
    <2>3. v[j] = u[j + 1]
      BY <1>1
    <2>4. j + 1 = Len(u) => j = Len(v)
      BY <1>1
    <2> QED BY <2>1, <2>2, <2>3, <2>4
  <1> QED BY <1>2 DEF Line, v

\* Later calls do not concern units before the code.
LEMMA LineSame ==
  ASSUME NEW s, NEW c \in ClientState, NEW c1 \in ClientState, NEW u \in Seq(UpUnit),
         NEW i \in Nat, NEW gone, Line(s, c, u, i, gone),
         c1.mode = c.mode, c1.module = c.module, c1.key = c.key,
         c1.calls = c.calls \/ i + Len(u) <= CodeAt(c)
  PROVE  Line(s, c1, u, i, gone)
  <1>1. ASSUME NEW j \in 1..Len(u) PROVE Unit(s, c1, i + j - 1) = Unit(s, c, i + j - 1)
    <2>1. CountAt(c1) = CountAt(c) /\ CodeAt(c1) = CodeAt(c) /\ CodeAt(c) \in Nat
      BY DEF CountAt, CodeAt
    <2>2. i + j - 1 # CodeAt(c) \/ Code(s, c1) = Code(s, c)
      <3>1. CASE c1.calls = c.calls
        BY <3>1 DEF Code, CallOf, RequestOf
      <3>2. CASE i + Len(u) <= CodeAt(c)
        <4>1. j <= Len(u) /\ Len(u) \in Nat
          OBVIOUS
        <4> QED BY <3>2, <4>1, <2>1
      <3> QED BY <3>1, <3>2
    <2> QED BY <2>1, <2>2 DEF Unit
  <1> QED BY <1>1 DEF Line

-----------------------------------------------------------------------------
(* What a client does, seen from its own session: the server stays at p.   *)

Place == Setup \union Serving \union {"spin", "dead"}

LEMMA UpSame ==
  ASSUME NEW s, NEW c \in ClientState, NEW c1 \in ClientState, NEW u \in Seq(UpUnit),
         NEW p, NEW k \in Nat, NEW em, NEW files, NEW gone,
         UpFits(s, c, u, p, k, em, files, gone),
         c1.mode = c.mode, c1.module = c.module, c1.key = c.key, c1.calls = c.calls
  PROVE  UpFits(s, c1, u, p, k, em, files, gone)
  <1>1. CountAt(c1) = CountAt(c) /\ CodeAt(c1) = CodeAt(c) /\ Reading(c1, p) = Reading(c, p)
    BY DEF CountAt, CodeAt, Reading
  <1>2. Reading(c, p) \in Nat
    BY Places
  <1>3. Line(s, c, u, Reading(c, p), s \in gone) => Line(s, c1, u, Reading(c1, p), s \in gone)
    BY <1>1, <1>2, LineSame
  <1>4. CallOf(s, c1) = CallOf(s, c)
    BY DEF CallOf
  <1> QED BY <1>1, <1>3, <1>4 DEF UpFits

LEMMA UnitSent ==
  ASSUME NEW s, NEW c \in ClientState, NEW c1 \in ClientState, NEW u \in Seq(UpUnit),
         NEW p \in Setup, NEW k \in Nat, NEW em, NEW files, NEW gone, NEW gone1,
         NEW m \in UpUnit,
         UpFits(s, c, u, p, k, em, files, gone), s \notin gone,
         p \notin Early => em = c.mode, p = "key" => c.mode = 1, p = "module" => c.module,
         Reading(c, p) + Len(u) = Written(c), Written(c) <= CodeAt(c),
         c1.mode = c.mode, c1.module = c.module, c1.key = c.key,
         \/ m = Unit(s, c1, Written(c))
         \/ s \in gone1 /\ CutOf(m, Unit(s, c1, Written(c))),
         Written(c) = CodeAt(c) /\ ~CutUnit(m) => c1.calls = k + 1
  PROVE  UpFits(s, c1, Append(u, m), p, k, em, files, gone1)
  <1>1. CountAt(c1) = CountAt(c) /\ CodeAt(c1) = CodeAt(c) /\ Reading(c1, p) = Reading(c, p)
    BY DEF CountAt, CodeAt, Reading
  <1>2. Reading(c, p) \in Nat /\ CodeAt(c) \in Nat /\ Written(c) \in Nat /\ Len(u) \in Nat
    BY Places
  <1>3. Line(s, c, u, Reading(c, p), FALSE)
    <2>1. CASE u = <<>>
      BY <2>1 DEF Line
    <2>2. CASE u # <<>>
      BY <2>2 DEF UpFits, Line, Setup
    <2> QED BY <2>1, <2>2
  <1>4. Line(s, c1, u, Reading(c, p), FALSE)
    BY <1>2, <1>3, LineSame
  <1>5. \/ m = Unit(s, c1, Reading(c, p) + Len(u))
        \/ s \in gone1 /\ CutOf(m, Unit(s, c1, Reading(c, p) + Len(u)))
    OBVIOUS
  <1>6. Line(s, c1, Append(u, m), Reading(c1, p), s \in gone1)
    BY <1>1, <1>2, <1>4, <1>5, LineGrows
  <1>7. Len(Append(u, m)) = Len(u) + 1 /\ Append(u, m)[Len(u) + 1] = m
    BY <1>2
  <1>8. /\ Reading(c1, p) + Len(Append(u, m)) <= CodeAt(c1) + 1
        /\ Reading(c1, p) + Len(Append(u, m)) = CodeAt(c1) + 1 => Written(c) = CodeAt(c)
    BY <1>1, <1>2, <1>7
  <1>9. Append(u, m)[Len(Append(u, m))] = m
    BY <1>7
  <1>10. p \notin {"exec", "timers"}
    BY DEF Setup
  <1> QED BY <1>6, <1>8, <1>9, <1>10 DEF UpFits

\* A client that has not called is set up.
LEMMA InSetup ==
  ASSUME NEW s, NEW c, NEW u, NEW d, NEW p \in Place, NEW k, NEW em, NEW e, NEW files,
         LiveFits(s, c, u, d, p, k, em, e, files),
         c.pc \notin {"ready", "response", "timers"}
  PROVE  p \in Setup /\ Starts(c, u, d, p, k)
  BY DEF LiveFits, Turn, Place

LEMMA Connected ==
  ASSUME NEW s \in Sessions, NEW c \in ClientState, NEW u \in Seq(UpUnit), NEW d,
         NEW p \in Place, NEW k \in Nat, NEW em, NEW e, NEW files, NEW gone,
         Fits(s, c, u, d, p, k, em, e, files, gone), s \notin gone,
         c.pc = "idle", NEW m \in Nat, NEW mod \in BOOLEAN
  PROVE  Fits(s, [c EXCEPT !.pc = IF m = 1 THEN "handshake" ELSE "count",
                           !.mode = m, !.module = mod],
              Append(u, TheInt(m)), d, p, k, em, e, files, gone)
  <1> DEFINE c1 == [c EXCEPT !.pc = IF m = 1 THEN "handshake" ELSE "count",
                             !.mode = m, !.module = mod]
             u1 == Append(u, TheInt(m))
  <1>1. LiveFits(s, c, u, d, p, k, em, e, files)
    BY DEF Fits
  <1>2. Starts(c, u, d, p, k) /\ p = "waits" /\ c.got = <<>> /\ c.mode # 1
    <2>1. Starts(c, u, d, p, k)
      BY <1>1, InSetup
    <2>2. p = "waits" /\ c.got = <<>> /\ c.mode # 1
      BY <1>1 DEF LiveFits
    <2> QED BY <2>1, <2>2
  <1>3. c.key = Zero /\ d = <<>>
    BY <1>1, <1>2 DEF LiveFits, Starts
  <1>4. /\ c1 \in ClientState
        /\ c1.pc = IF m = 1 THEN "handshake" ELSE "count"
        /\ c1.mode = m /\ c1.module = mod /\ c1.key = c.key /\ c1.calls = c.calls
        /\ c1.got = c.got
    BY DEF ClientState, ClientPc
  <1>5. u = <<>> /\ c.calls = 0 /\ k = 0
    <2>1. Len(u) = 0
      BY <1>2 DEF Starts, Reading, Written, Early
    <2> QED BY <1>2, <2>1 DEF Starts
  <1>6. u1 = <<TheInt(m)>>
    BY <1>5
  <1> HIDE DEF c1, u1
  <1>7. /\ Reading(c1, p) = 0 /\ Written(c1) = 1 /\ CodeAt(c1) > 1 /\ CodeAt(c1) \in Nat
        /\ Unit(s, c1, 0) = TheInt(m)
    BY <1>2, <1>4 DEF Reading, Written, CodeAt, CountAt, Early, Unit
  <1>8. UpFits(s, c1, u1, p, k, em, files, gone)
    BY <1>2, <1>6, <1>7 DEF UpFits, Line, Early
  <1>9. Starts(c1, u1, d, p, k)
    BY <1>2, <1>3, <1>4, <1>5, <1>6, <1>7 DEF Starts
  <1>10. GotFits(s, c1, k)
    <2>1. c1.pc # "response" /\ c1.got = <<>> /\ c1.calls = 0
      BY <1>2, <1>4, <1>5
    <2>2. Len(c1.got) = 0 /\ 1..Len(c1.got) = {}
      BY <2>1
    <2> QED BY <2>1, <2>2 DEF GotFits
  <1>11. EnclaveFits(s, c1, p, k, em, e)
    BY <1>2 DEF EnclaveFits, Early
  <1>12. m = 1 => Shakes(s, c1, d, p, e)
    BY <1>2, <1>3, <1>4 DEF Shakes, Early, Serving
  <1>13. LiveFits(s, c1, u1, d, p, k, em, e, files)
    BY <1>2, <1>3, <1>4, <1>9, <1>10, <1>11, <1>12 DEF LiveFits, Early, Setup, Serving
  <1> QED BY <1>8, <1>13 DEF Fits, c1, u1

LEMMA PublicKeySent ==
  ASSUME NEW s \in Sessions, NEW c \in ClientState, NEW u \in Seq(UpUnit), NEW d,
         NEW p \in Place, NEW k \in Nat, NEW em, NEW e, NEW files, NEW gone,
         Fits(s, c, u, d, p, k, em, e, files, gone), s \notin gone,
         c.pc = "handshake"
  PROVE  Fits(s, [c EXCEPT !.pc = "spk"], Append(u, TheClientKey(s)), d, p, k, em, e,
              files, gone)
  <1> DEFINE c1 == [c EXCEPT !.pc = "spk"]
             u1 == Append(u, TheClientKey(s))
  <1>1. LiveFits(s, c, u, d, p, k, em, e, files) /\ UpFits(s, c, u, p, k, em, files, gone)
    BY DEF Fits
  <1>2. p \in Setup /\ Starts(c, u, d, p, k) /\ c.mode = 1
    BY <1>1, InSetup DEF LiveFits
  <1>3. p \in Early \union {"key"} /\ d = <<>>
    BY <1>1, <1>2 DEF LiveFits, Shakes, Setup, Early
  <1>4. /\ c1 \in ClientState
        /\ c1.pc = "spk"
        /\ c1.mode = c.mode /\ c1.module = c.module /\ c1.key = c.key
        /\ c1.calls = c.calls /\ c1.got = c.got
    BY DEF ClientState, ClientPc
  <1>5. TheClientKey(s) \in UpUnit
    BY DEF TheClientKey, UpUnit, ClientKey
  <1> HIDE DEF c1
  <1>6. /\ Written(c) = 1 /\ Written(c1) = 2 /\ CodeAt(c) > 2 /\ CodeAt(c) \in Nat
        /\ Unit(s, c1, 1) = TheClientKey(s) /\ Reading(c1, p) = Reading(c, p)
        /\ Reading(c, p) \in Nat
    BY <1>2, <1>4 DEF Reading, Written, CodeAt, CountAt, Early, Unit
  <1>7. UpFits(s, c1, u1, p, k, em, files, gone)
    <2>1. /\ p \notin Early => em = c.mode
          /\ p = "module" => c.module
          /\ Reading(c, p) + Len(u) = Written(c)
      BY <1>1, <1>2 DEF LiveFits, Starts
    <2>2. Written(c) <= CodeAt(c) /\ Written(c) # CodeAt(c)
      BY <1>6
    <2> QED BY <1>1, <1>2, <1>4, <1>5, <1>6, <2>1, <2>2, UnitSent
  <1>8. Len(u1) = Len(u) + 1
    OBVIOUS
  <1> HIDE DEF u1
  <1>9. Starts(c1, u1, d, p, k)
    BY <1>2, <1>4, <1>6, <1>8 DEF Starts
  <1>10. GotFits(s, c1, k)
    <2>1. c1.pc # "response" /\ c1.pc # "timers" /\ \A n : Own(s, c1, n) = Own(s, c, n)
      BY <1>4 DEF Own
    <2> QED BY <1>1, <1>4, <2>1 DEF GotFits, LiveFits
  <1>11. EnclaveFits(s, c1, p, k, em, e)
    BY <1>1, <1>3 DEF EnclaveFits, LiveFits, Early
  <1>12. Shakes(s, c1, d, p, e)
    BY <1>3, <1>4 DEF Shakes, Early, Serving
  <1>13. LiveFits(s, c1, u1, d, p, k, em, e, files)
    BY <1>1, <1>2, <1>3, <1>4, <1>9, <1>10, <1>11, <1>12 DEF LiveFits, Early, Setup, Serving
  <1> QED BY <1>7, <1>13 DEF Fits, c1, u1

\* What has been returned does not change when the client moves before its calls.
LEMMA GotSame ==
  ASSUME NEW s, NEW c, NEW c1, NEW k, GotFits(s, c, k),
         c1.mode = c.mode, c1.module = c.module, c1.calls = c.calls, c1.got = c.got,
         c.pc \notin {"response", "timers"}, c1.pc \notin {"response", "timers"}
  PROVE  GotFits(s, c1, k)
  BY DEF GotFits, Own

LEMMA ServerKeyRead ==
  ASSUME NEW s \in Sessions, NEW c \in ClientState, NEW u \in Seq(UpUnit),
         NEW d \in Seq(DownUnit),
         NEW p \in Place, NEW k \in Nat, NEW em, NEW e, NEW files, NEW gone,
         Fits(s, c, u, d, p, k, em, e, files, gone), s \notin gone,
         c.pc = "spk", d # <<>>
  PROVE  Fits(s, [c EXCEPT !.pc = "half1", !.spk = Head(d).v], u, Tail(d), p, k, em, e,
              files, gone)
  <1>1. LiveFits(s, c, u, d, p, k, em, e, files) /\ UpFits(s, c, u, p, k, em, files, gone)
    BY DEF Fits
  <1>2. p \in Setup /\ Starts(c, u, d, p, k) /\ c.mode = 1 /\ Shakes(s, c, d, p, e)
    BY <1>1, InSetup DEF LiveFits
  <1>3. p = "count" /\ d = <<TheServerKey(e.spk), Half(s, e), Half(s, e)>>
    <2>1. p \in {"count", "module"} /\ d = <<TheServerKey(e.spk), Half(s, e), Half(s, e)>>
      BY <1>2 DEF Shakes, Early, Setup
    <2>2. p # "module"
      <3>1. Reading(c, p) + Len(u) = 2 /\ Len(u) \in Nat
        BY <1>2 DEF Starts, Written
      <3> QED BY <1>2, <3>1 DEF Reading, CountAt, Early
    <2> QED BY <2>1, <2>2
  <1> DEFINE c1 == [c EXCEPT !.pc = "half1", !.spk = Head(d).v]
  <1>4. Head(d).v = e.spk /\ Tail(d) = <<Half(s, e), Half(s, e)>>
    BY <1>3 DEF TheServerKey
  <1>5. Head(d).v \in Nat
    <2>1. Head(d) \in DownUnit /\ Head(d).t = "spk"
      BY <1>3 DEF TheServerKey
    <2> QED BY <2>1 DEF DownUnit, ServerKey, Box, Packet
  <1>6. /\ c1 \in ClientState
        /\ c1.pc = "half1" /\ c1.spk = e.spk
        /\ c1.mode = c.mode /\ c1.module = c.module /\ c1.key = c.key
        /\ c1.calls = c.calls /\ c1.got = c.got
    BY <1>4, <1>5 DEF ClientState, ClientPc
  <1> HIDE DEF c1
  <1>7. UpFits(s, c1, u, p, k, em, files, gone)
    BY <1>1, <1>6, UpSame
  <1>8. Starts(c1, u, Tail(d), p, k)
    BY <1>2, <1>6 DEF Starts, Reading, Written, CountAt, CodeAt
  <1>9. GotFits(s, c1, k)
    BY <1>1, <1>6, GotSame DEF LiveFits
  <1>10. EnclaveFits(s, c1, p, k, em, e)
    BY <1>1, <1>3, <1>6 DEF EnclaveFits, LiveFits, Early
  <1>11. Shakes(s, c1, Tail(d), p, e)
    BY <1>3, <1>4, <1>6 DEF Shakes, Early, Serving
  <1>12. LiveFits(s, c1, u, Tail(d), p, k, em, e, files)
    BY <1>1, <1>2, <1>3, <1>6, <1>8, <1>9, <1>10, <1>11 DEF LiveFits, Early, Setup, Serving
  <1> QED BY <1>7, <1>12 DEF Fits, c1

\* Half 1 and half 2, from the enclave the client has the public key of.
LEMMA HalfRead ==
  ASSUME NEW s \in Sessions, NEW c \in ClientState, NEW u \in Seq(UpUnit),
         NEW d \in Seq(DownUnit),
         NEW p \in Place, NEW k \in Nat, NEW em, NEW e, NEW files, NEW gone,
         Fits(s, c, u, d, p, k, em, e, files, gone), s \notin gone,
         c.pc \in {"half1", "half2"}, d # <<>>
  PROVE  /\ Head(d) = Half(s, e) /\ c.spk = e.spk
         /\ c.pc = "half2" => c.half = e.key
         /\ em = 1 /\ p = "count"
         /\ e.key \in Nat
         /\ c.pc = "half1" =>
              Fits(s, [c EXCEPT !.pc = "half2", !.half = e.key], u, Tail(d), p, k, em, e,
                   files, gone)
         /\ c.pc = "half2" =>
              Fits(s, [c EXCEPT !.pc = "count", !.key = e.key], u, Tail(d), p, k, em, e,
                   files, gone)
  <1>1. LiveFits(s, c, u, d, p, k, em, e, files) /\ UpFits(s, c, u, p, k, em, files, gone)
    BY DEF Fits
  <1>2. p \in Setup /\ Starts(c, u, d, p, k) /\ c.mode = 1 /\ Shakes(s, c, d, p, e)
    BY <1>1, InSetup DEF LiveFits
  <1>3. p = "count" /\ u = <<>> /\ em = 1
    <2>1. p \in {"count", "module"}
      BY <1>2 DEF Shakes, Early, Setup
    <2>2. Reading(c, p) + Len(u) = 2 /\ Len(u) \in Nat
      BY <1>2 DEF Starts, Written
    <2>3. p # "module"
      BY <1>2, <2>2 DEF Reading, CountAt, Early
    <2>4. Len(u) = 0
      BY <1>2, <2>1, <2>2, <2>3 DEF Reading, CountAt, Early
    <2> QED BY <1>1, <1>2, <2>1, <2>3, <2>4 DEF LiveFits, Early
  <1>4. /\ c.spk = e.spk
        /\ c.pc = "half1" => d = <<Half(s, e), Half(s, e)>>
        /\ c.pc = "half2" => d = <<Half(s, e)>> /\ c.half = e.key
    BY <1>2, <1>3 DEF Shakes
  <1>5. Head(d) = Half(s, e)
    BY <1>4
  <1>6. e.key \in Nat
    <2>1. Head(d) \in DownUnit /\ Head(d).t = "box" /\ Head(d).v = e.key
      BY <1>5 DEF Half
    <2> QED BY <2>1 DEF DownUnit, ServerKey, Box, Packet
  <1>7. ASSUME NEW c1 \in ClientState, c1.pc \in {"half2", "count"}, c1.spk = c.spk,
               c1.pc = "half2" => c1.half = e.key /\ Tail(d) = <<Half(s, e)>>,
               c1.pc = "count" => c1.key = e.key /\ Tail(d) = <<>>,
               c1.mode = c.mode, c1.module = c.module, c1.calls = c.calls, c1.got = c.got
        PROVE  Fits(s, c1, u, Tail(d), p, k, em, e, files, gone)
    <2>1. UpFits(s, c1, u, p, k, em, files, gone)
      BY <1>3 DEF UpFits
    <2>2. Starts(c1, u, Tail(d), p, k)
      BY <1>2, <1>3, <1>7 DEF Starts, Reading, Written, CountAt, CodeAt, Early
    <2>3. GotFits(s, c1, k)
      BY <1>1, <1>7, GotSame DEF LiveFits
    <2>4. EnclaveFits(s, c1, p, k, em, e)
      BY <1>1, <1>3, <1>7 DEF EnclaveFits, LiveFits, Early
    <2>5. Shakes(s, c1, Tail(d), p, e)
      BY <1>3, <1>4, <1>7 DEF Shakes, Early, Serving
    <2>6. LiveFits(s, c1, u, Tail(d), p, k, em, e, files)
      BY <1>1, <1>2, <1>3, <1>7, <2>2, <2>3, <2>4, <2>5 DEF LiveFits, Early, Setup, Serving
    <2> QED BY <2>1, <2>6 DEF Fits
  <1>8. CASE c.pc = "half1"
    <2> DEFINE c1 == [c EXCEPT !.pc = "half2", !.half = e.key]
    <2>1. /\ c1 \in ClientState /\ c1.pc = "half2" /\ c1.spk = c.spk /\ c1.half = e.key
          /\ c1.mode = c.mode /\ c1.module = c.module /\ c1.calls = c.calls
          /\ c1.got = c.got
      BY <1>6 DEF ClientState, ClientPc
    <2>2. Tail(d) = <<Half(s, e)>>
      <3>1. d = <<Half(s, e), Half(s, e)>>
        BY <1>4, <1>8
      <3> QED BY <3>1
    <2> HIDE DEF c1
    <2>3. Fits(s, c1, u, Tail(d), p, k, em, e, files, gone)
      BY <1>7, <2>1, <2>2
    <2> QED BY <1>3, <1>4, <1>5, <1>6, <1>8, <2>3 DEF c1
  <1>9. CASE c.pc = "half2"
    <2> DEFINE c1 == [c EXCEPT !.pc = "count", !.key = e.key]
    <2>1. /\ c1 \in ClientState /\ c1.pc = "count" /\ c1.spk = c.spk /\ c1.key = e.key
          /\ c1.mode = c.mode /\ c1.module = c.module /\ c1.calls = c.calls
          /\ c1.got = c.got
      BY <1>6 DEF ClientState, ClientPc
    <2>2. Tail(d) = <<>>
      <3>1. d = <<Half(s, e)>>
        BY <1>4, <1>9
      <3> QED BY <3>1
    <2> HIDE DEF c1
    <2>3. Fits(s, c1, u, Tail(d), p, k, em, e, files, gone)
      BY <1>7, <2>1, <2>2
    <2> QED BY <1>3, <1>4, <1>5, <1>6, <1>9, <2>3 DEF c1
  <1> QED BY <1>8, <1>9

LEMMA ModulesSent ==
  ASSUME NEW s \in Sessions, NEW c \in ClientState, NEW u \in Seq(UpUnit), NEW d,
         NEW p \in Place, NEW k \in Nat, NEW em, NEW e, NEW files, NEW gone,
         Fits(s, c, u, d, p, k, em, e, files, gone), s \notin gone,
         c.pc \in {"count", "file", "name"}, Unit(s, c, Written(c)) \in UpUnit,
         NEW q, q = IF c.pc = "count" THEN IF c.module THEN "file" ELSE "ready"
                    ELSE IF c.pc = "file" THEN "name" ELSE "ready"
  PROVE  Fits(s, [c EXCEPT !.pc = q], Append(u, Unit(s, c, Written(c))), d, p, k, em, e,
              files, gone)
  <1> DEFINE c1 == [c EXCEPT !.pc = q]
             m  == Unit(s, c, Written(c))
             u1 == Append(u, m)
  <1>1. LiveFits(s, c, u, d, p, k, em, e, files) /\ UpFits(s, c, u, p, k, em, files, gone)
    BY DEF Fits
  <1>2. p \in Setup /\ Starts(c, u, d, p, k)
    BY <1>1, InSetup
  <1>3. /\ c1 \in ClientState
        /\ c1.pc = q /\ c1.spk = c.spk /\ c1.half = c.half
        /\ c1.mode = c.mode /\ c1.module = c.module /\ c1.key = c.key
        /\ c1.calls = c.calls /\ c1.got = c.got
    BY DEF ClientState, ClientPc
  <1>4. q \in {"file", "name", "ready"} /\ (q \in {"file", "name"} => c.module)
    BY <1>2 DEF Starts
  <1> HIDE DEF c1
  <1>5. /\ Written(c) \in Nat /\ CodeAt(c) \in Nat
        /\ Written(c) < CodeAt(c) /\ Written(c1) = Written(c) + 1
        /\ Reading(c1, p) = Reading(c, p) /\ Reading(c, p) \in Nat
        /\ Unit(s, c1, Written(c)) = m
    <2>1. /\ CountAt(c) \in Nat /\ CountAt(c1) = CountAt(c) /\ CodeAt(c1) = CodeAt(c)
          /\ CodeAt(c) = CountAt(c) + (IF c.module THEN 3 ELSE 1)
      BY <1>3 DEF CountAt, CodeAt
    <2>2. c.pc \in {"file", "name"} => c.module
      BY <1>2 DEF Starts
    <2>3. Written(c) < CodeAt(c) /\ Written(c1) = Written(c) + 1
      <3>1. CASE c.pc = "count" /\ c.module
        BY <2>1, <3>1, <1>3 DEF Written
      <3>2. CASE c.pc = "count" /\ ~c.module
        BY <2>1, <3>2, <1>3 DEF Written
      <3>3. CASE c.pc = "file"
        BY <2>1, <2>2, <3>3, <1>3 DEF Written
      <3>4. CASE c.pc = "name"
        BY <2>1, <2>2, <3>4, <1>3 DEF Written
      <3> QED BY <3>1, <3>2, <3>3, <3>4
    <2>4. Reading(c1, p) = Reading(c, p)
      BY <2>1 DEF Reading
    <2>5. Code(s, c1) = Code(s, c)
      BY <1>3 DEF Code, CallOf, RequestOf
    <2>6. Unit(s, c1, Written(c)) = m
      BY <1>3, <2>1, <2>5 DEF Unit
    <2> QED BY <2>3, <2>4, <2>6, Places
  <1>6. UpFits(s, c1, u1, p, k, em, files, gone)
    <2>1. /\ p \notin Early => em = c.mode
          /\ p = "key" => c.mode = 1
          /\ p = "module" => c.module
          /\ Reading(c, p) + Len(u) = Written(c)
      BY <1>1, <1>2 DEF LiveFits, Starts
    <2>2. Written(c) <= CodeAt(c) /\ Written(c) # CodeAt(c)
      BY <1>5
    <2> QED BY <1>1, <1>2, <1>3, <1>5, <2>1, <2>2, UnitSent
  <1>7. Len(u1) = Len(u) + 1 /\ Len(u) \in Nat
    OBVIOUS
  <1> HIDE DEF u1, m
  <1>8. Starts(c1, u1, d, p, k)
    BY <1>2, <1>3, <1>4, <1>5, <1>7 DEF Starts
  <1>9. GotFits(s, c1, k)
    BY <1>1, <1>3, <1>4, GotSame DEF LiveFits
  <1>10. EnclaveFits(s, c1, p, k, em, e)
    BY <1>1, <1>2, <1>3 DEF EnclaveFits, LiveFits, Setup, Failed
  <1>11. c.mode = 1 => Shakes(s, c1, d, p, e)
    BY <1>1, <1>2, <1>3, <1>4 DEF Shakes, LiveFits, Setup, Early, Serving
  <1>12. LiveFits(s, c1, u1, d, p, k, em, e, files)
    BY <1>1, <1>2, <1>3, <1>4, <1>8, <1>9, <1>10, <1>11 DEF LiveFits, Early, Setup, Serving
  <1> QED BY <1>6, <1>12 DEF Fits, c1, u1, m

LEMMA CodeSent ==
  ASSUME NEW s \in Sessions, NEW c \in ClientState, NEW u \in Seq(UpUnit), NEW d,
         NEW p \in Place, NEW k \in Nat, NEW em, NEW e, NEW files, NEW gone,
         Fits(s, c, u, d, p, k, em, e, files, gone), s \notin gone,
         c.pc = "ready", Sends(c.mode),
         NEW c1 \in ClientState, c1 = [c EXCEPT !.pc = "response", !.calls = @ + 1],
         Code(s, c1) \in UpUnit
  PROVE  Fits(s, c1, Append(u, Code(s, c1)), d, p, k, em, e, files, gone)
  <1> DEFINE u1 == Append(u, Code(s, c1))
  <1>1. LiveFits(s, c, u, d, p, k, em, e, files) /\ UpFits(s, c, u, p, k, em, files, gone)
    BY DEF Fits
  <1>2. /\ c1.pc = "response" /\ c1.spk = c.spk /\ c1.half = c.half
        /\ c1.mode = c.mode /\ c1.module = c.module /\ c1.key = c.key
        /\ c1.calls = c.calls + 1 /\ c1.got = c.got
        /\ c.calls \in Nat
    BY DEF ClientState
  <1>3. /\ CodeAt(c) \in Nat /\ CodeAt(c1) = CodeAt(c) /\ Written(c) = CodeAt(c)
        /\ Written(c1) = CodeAt(c) + 1 /\ Reading(c1, p) = Reading(c, p)
        /\ Unit(s, c1, CodeAt(c)) = Code(s, c1)
    <2>1. CountAt(c1) = CountAt(c) /\ CodeAt(c1) = CodeAt(c)
      BY <1>2 DEF CountAt, CodeAt
    <2>2. CodeAt(c) > CountAt(c) /\ CodeAt(c) \in Nat /\ CountAt(c) \in Nat
      BY Places
    <2> QED BY <1>2, <2>1, <2>2 DEF Written, Reading, Unit
  <1>4. GotFits(s, c1, k)
    <2>1. GotFits(s, c, k) /\ \A n : Own(s, c1, n) = Own(s, c, n)
      BY <1>1, <1>2 DEF LiveFits, Own
    <2> QED BY <1>2, <2>1 DEF GotFits
  <1>5. /\ EnclaveFits(s, c1, p, k, em, e)
        /\ c.mode = 1 => Shakes(s, c1, d, p, e)
    <2>1. EnclaveFits(s, c, p, k, em, e) /\ ~(em = 1 /\ p \notin Early /\ e.crashed)
      BY <1>1 DEF EnclaveFits, LiveFits
    <2>2. em = 2 /\ p = "timers" => ~e.crashed
      BY <1>1 DEF LiveFits, Turn, Serving
    <2>3. EnclaveFits(s, c1, p, k, em, e)
      BY <2>1, <2>2 DEF EnclaveFits
    <2>4. c.mode = 1 => Shakes(s, c1, d, p, e)
      BY <1>1, <1>2 DEF Shakes, LiveFits, Early
    <2> QED BY <2>3, <2>4
  <1>6. Len(u1) = Len(u) + 1 /\ Len(u) \in Nat
    OBVIOUS
  <1>7. CASE p \in Setup
    <2>1. /\ Starts(c, u, d, p, k) /\ k = 0 /\ c.calls = 0
          /\ p \notin Early => em = c.mode
          /\ p = "key" => c.mode = 1
          /\ p = "module" => c.module
          /\ Reading(c, p) + Len(u) = Written(c)
      BY <1>1, <1>7 DEF LiveFits, Starts
    <2>2. Written(c) <= CodeAt(c) /\ c1.calls = k + 1 /\ c1.calls = 1
      BY <1>2, <1>3, <2>1
    <2>a. Code(s, c1) = Unit(s, c1, Written(c)) /\ Reading(c, p) \in Nat
      BY <1>3, Places
    <2>3. UpFits(s, c1, u1, p, k, em, files, gone)
      BY <1>1, <1>2, <1>7, <2>1, <2>2, <2>a, UnitSent
    <2> HIDE DEF u1
    <2>b. Reading(c1, p) + Len(u1) = Written(c1)
      BY <1>3, <1>6, <2>1, <2>a
    <2>4. Starts(c1, u1, d, p, k)
      BY <1>2, <2>1, <2>2, <2>b DEF Starts
    <2>5. LiveFits(s, c1, u1, d, p, k, em, e, files)
      BY <1>1, <1>2, <1>4, <1>5, <1>7, <2>4 DEF LiveFits, Setup, Early, Serving
    <2> QED BY <2>3, <2>5 DEF Fits, u1
  <1>8. CASE p \in Serving
    <2>1. p = "code" /\ u = <<>> /\ d = <<>> /\ k = c.calls /\ em = c.mode
      BY <1>1, <1>8 DEF LiveFits, Turn, Serving, Early
    <2>2. u1 = <<Code(s, c1)>>
      BY <2>1
    <2>3. c1.calls = k + 1
      BY <1>2, <2>1
    <2> HIDE DEF u1
    <2>4. Line(s, c1, u1, Reading(c1, p), s \in gone)
      <3>1. Reading(c1, p) = CodeAt(c) /\ CodeAt(c) + 1 - 1 = CodeAt(c)
        BY <1>3, <2>1 DEF Reading, Early
      <3>2. Len(u1) = 1 /\ u1[1] = Code(s, c1) /\ 1..1 = {1}
        BY <2>2
      <3> QED BY <1>3, <3>1, <3>2 DEF Line
    <2>5. Reading(c1, p) + Len(u1) <= CodeAt(c1) + 1
      BY <1>3, <2>1, <2>2 DEF Reading, Early
    <2>6. UpFits(s, c1, u1, p, k, em, files, gone)
      BY <1>2, <2>1, <2>3, <2>4, <2>5 DEF UpFits, Early
    <2>7. Turn(s, c1, u1, d, p, k)
      BY <1>2, <2>1, <2>2, <2>3 DEF Turn
    <2>c. em = 1 => ~e.crashed
      BY <1>1, <2>1 DEF LiveFits, EnclaveFits, Early
    <2>8. LiveFits(s, c1, u1, d, p, k, em, e, files)
      BY <1>1, <1>2, <1>4, <1>5, <2>1, <2>7, <2>c DEF LiveFits, Setup, Early, Serving
    <2> QED BY <2>6, <2>8 DEF Fits, u1
  <1> QED BY <1>1, <1>7, <1>8 DEF LiveFits, Place

LEMMA UnknownCalled ==
  ASSUME NEW s \in Sessions, NEW c \in ClientState, NEW u \in Seq(UpUnit), NEW d,
         NEW p \in Place, NEW k \in Nat, NEW em, NEW e, NEW files, NEW gone,
         Fits(s, c, u, d, p, k, em, e, files, gone), s \notin gone,
         c.pc = "ready", ~Sends(c.mode)
  PROVE  Fits(s, [c EXCEPT !.pc = "timers"], u, d, p, k, em, e, files, gone)
  <1> DEFINE c1 == [c EXCEPT !.pc = "timers"]
  <1>1. LiveFits(s, c, u, d, p, k, em, e, files) /\ UpFits(s, c, u, p, k, em, files, gone)
    BY DEF Fits
  <1>2. p \in Early /\ Starts(c, u, d, p, k) /\ c.mode # 1
    BY <1>1 DEF LiveFits, Sends, Place, Setup, Serving, Early
  <1>3. /\ c1 \in ClientState /\ c1.pc = "timers"
        /\ c1.mode = c.mode /\ c1.module = c.module /\ c1.key = c.key
        /\ c1.calls = c.calls /\ c1.got = c.got
    BY DEF ClientState, ClientPc
  <1> HIDE DEF c1
  <1>4. UpFits(s, c1, u, p, k, em, files, gone)
    BY <1>1, <1>3, UpSame
  <1>5. Starts(c1, u, d, p, k)
    BY <1>2, <1>3 DEF Starts, Reading, Written, CountAt, CodeAt
  <1>6. GotFits(s, c1, k)
    BY <1>1, <1>3 DEF GotFits, LiveFits, Own
  <1>7. EnclaveFits(s, c1, p, k, em, e)
    BY <1>2 DEF EnclaveFits, Early
  <1>8. LiveFits(s, c1, u, d, p, k, em, e, files)
    BY <1>1, <1>2, <1>3, <1>5, <1>6, <1>7 DEF LiveFits, Setup, Early, Serving
  <1> QED BY <1>4, <1>8 DEF Fits, c1

\* What is on its way to a client that waits for the result, and what it takes it for.
LEMMA ResultWaits ==
  ASSUME NEW s \in Sessions, NEW c \in ClientState, NEW u, NEW d,
         NEW p \in Place, NEW k \in Nat, NEW em, NEW e, NEW files,
         LiveFits(s, c, u, d, p, k, em, e, files),
         c.pc = "response", d # <<>>
  PROVE  /\ u = <<>> /\ Sends(c.mode) /\ em = c.mode
         /\ \/ /\ c.calls = k
               /\ \/ p = "timers" /\ d \in {<<m>> : m \in Results(s, c)}
                  \/ p = "code" /\ d \in {<<m, Timers>> : m \in Results(s, c)}
            \/ Failed(c, k) /\ p = "code" /\ d = <<Timers>>
  <1>1. p \notin Setup
    BY DEF LiveFits, Starts, Shakes, Early, Setup
  <1>2. p \in Serving
    BY <1>1 DEF Place, LiveFits
  <1> QED BY <1>2 DEF LiveFits, Turn, Early, Serving

\* A result packet, read with the client's key, answers its call.
LEMMA ResultSeen ==
  ASSUME NEW s, NEW c, NEW m \in Results(s, c)
  PROVE  View(m, c.key) \in Own(s, c, c.calls)
  <1>1. PICK reply \in Own(s, c, c.calls) : m = Text("result", reply.out, c.key)
    BY DEF Results
  <1>2. View(m, c.key) = [what |-> "result", out |-> reply.out]
    BY <1>1 DEF View, Text
  <1> QED BY <1>2 DEF Own

LEMMA ResponseRead ==
  ASSUME NEW s \in Sessions, NEW c \in ClientState, NEW u \in Seq(UpUnit),
         NEW d \in Seq(DownUnit),
         NEW p \in Place, NEW k \in Nat, NEW em, NEW e, NEW files, NEW gone,
         Fits(s, c, u, d, p, k, em, e, files, gone), s \notin gone,
         c.pc = "response", d # <<>>, NEW reply \in Reply, reply = View(Head(d), c.key)
  PROVE  Fits(s, [c EXCEPT !.pc = "timers", !.got = Append(@, reply)], u, Tail(d), p, k,
              em, e, files, gone)
  <1> DEFINE c1 == [c EXCEPT !.pc = "timers", !.got = Append(@, reply)]
  <1>1. LiveFits(s, c, u, d, p, k, em, e, files) /\ UpFits(s, c, u, p, k, em, files, gone)
    BY DEF Fits
  <1>2. /\ c1 \in ClientState /\ c1.pc = "timers" /\ c1.spk = c.spk /\ c1.half = c.half
        /\ c1.mode = c.mode /\ c1.module = c.module /\ c1.key = c.key
        /\ c1.calls = c.calls /\ c1.got = Append(c.got, reply)
        /\ c.got \in Seq(Reply) /\ c.calls \in Nat
    <2> DEFINE got1 == Append(c.got, reply)
    <2>1. c.got \in Seq(Reply) /\ c.calls \in Nat /\ got1 \in Seq(Reply)
      BY DEF ClientState
    <2>2. c1 = [c EXCEPT !.pc = "timers", !.got = got1]
      OBVIOUS
    <2> HIDE DEF got1, c1
    <2>3. /\ c1 \in ClientState /\ c1.pc = "timers" /\ c1.spk = c.spk /\ c1.half = c.half
          /\ c1.mode = c.mode /\ c1.module = c.module /\ c1.key = c.key
          /\ c1.calls = c.calls /\ c1.got = got1
      BY <2>1, <2>2 DEF ClientState, ClientPc
    <2> QED BY <2>1, <2>3 DEF got1
  <1> HIDE DEF c1
  <1>3. UpFits(s, c1, u, p, k, em, files, gone)
    BY <1>1, <1>2, UpSame
  <1>4. u = <<>> /\ Sends(c.mode) /\ em = c.mode /\ p \in {"timers", "code"}
    BY <1>1, ResultWaits
  <1>5. /\ Turn(s, c1, u, Tail(d), p, k)
        /\ \/ reply \in Own(s, c, c.calls) /\ c.calls = k
           \/ reply = TimersOnly /\ Failed(c, k)
    <2>0. ASSUME NEW m \in Results(s, c) PROVE View(m, c.key) \in Own(s, c, c.calls)
      BY ResultSeen
    <2>1. ASSUME c.calls = k, p = "timers", NEW m \in Results(s, c), d = <<m>> PROVE <1>5
      <3>1. Tail(d) = <<>> /\ Head(d) = m
        BY <2>1
      <3>2. reply \in Own(s, c, c.calls)
        BY <2>0, <3>1
      <3> QED BY <1>2, <1>4, <2>1, <3>1, <3>2 DEF Turn
    <2>2. ASSUME c.calls = k, p = "code", NEW m \in Results(s, c), d = <<m, Timers>>
          PROVE  <1>5
      <3>1. Tail(d) = <<Timers>> /\ Head(d) = m
        BY <2>2
      <3>2. reply \in Own(s, c, c.calls)
        BY <2>0, <3>1
      <3> QED BY <1>2, <1>4, <2>2, <3>1, <3>2 DEF Turn
    <2>3. ASSUME Failed(c, k), p = "code", d = <<Timers>> PROVE <1>5
      <3>1. Tail(d) = <<>> /\ reply = TimersOnly
        BY <2>3 DEF View, Timers, Text, TimersOnly
      <3>2. Failed(c1, k)
        BY <1>2, <2>3 DEF Failed
      <3> QED BY <1>2, <1>4, <2>3, <3>1, <3>2 DEF Turn
    <2> QED BY <1>1, <2>1, <2>2, <2>3, ResultWaits
  <1>6. GotFits(s, c1, k)
    <2>1. GotFits(s, c, k) /\ Len(c.got) + 1 = c.calls
      BY <1>1, <1>4 DEF LiveFits, GotFits
    <2>2. /\ Len(c1.got) = c.calls
          /\ c1.got[c.calls] = reply
          /\ \A n \in 1..Len(c.got) : c1.got[n] = c.got[n]
          /\ \A n \in 1..Len(c1.got) : n \in 1..Len(c.got) \/ n = c.calls
      <3> DEFINE g == c.got
      <3>1. g \in Seq(Reply) /\ c1.got = Append(g, reply) /\ Len(g) + 1 = c.calls
        BY <1>2, <2>1
      <3> HIDE DEF g
      <3>2. /\ Len(Append(g, reply)) = Len(g) + 1 /\ Len(g) \in Nat
            /\ Append(g, reply)[Len(g) + 1] = reply
            /\ \A n \in 1..Len(g) : Append(g, reply)[n] = g[n]
        BY <3>1
      <3>3. \A n \in 1..(Len(g) + 1) : n \in 1..Len(g) \/ n = Len(g) + 1
        BY <3>2
      <3> QED BY <3>1, <3>2, <3>3 DEF g
    <2>3. \A n : Own(s, c1, n) = Own(s, c, n)
      BY <1>2 DEF Own
    <2>4. Failed(c, k) => Failed(c1, k)
      BY <1>2 DEF Failed
    <2> QED BY <1>2, <1>5, <2>1, <2>2, <2>3, <2>4 DEF GotFits
  <1>7. EnclaveFits(s, c1, p, k, em, e)
    BY <1>1, <1>2 DEF EnclaveFits, LiveFits, Failed
  <1>8. c.mode = 1 => Shakes(s, c1, Tail(d), p, e)
    BY <1>1, <1>2, <1>4 DEF Shakes, LiveFits, Early, Serving
  <1>9. LiveFits(s, c1, u, Tail(d), p, k, em, e, files)
    BY <1>1, <1>2, <1>4, <1>5, <1>6, <1>7, <1>8 DEF LiveFits, Setup, Early, Serving
  <1> QED BY <1>3, <1>9 DEF Fits, c1

LEMMA TimersRead ==
  ASSUME NEW s \in Sessions, NEW c \in ClientState, NEW u \in Seq(UpUnit),
         NEW d \in Seq(DownUnit),
         NEW p \in Place, NEW k \in Nat, NEW em, NEW e, NEW files, NEW gone,
         Fits(s, c, u, d, p, k, em, e, files, gone), s \notin gone,
         c.pc = "timers", d # <<>>
  PROVE  /\ Sends(c.mode)
         /\ Fits(s, [c EXCEPT !.pc = "ready"], u, Tail(d), p, k, em, e, files, gone)
  <1> DEFINE c1 == [c EXCEPT !.pc = "ready"]
  <1>1. LiveFits(s, c, u, d, p, k, em, e, files) /\ UpFits(s, c, u, p, k, em, files, gone)
    BY DEF Fits
  <1>2. p \notin Setup
    BY <1>1 DEF LiveFits, Starts, Sends
  <1>3. p \in Serving /\ em = c.mode /\ Sends(c.mode)
    BY <1>1, <1>2 DEF Place, LiveFits, Setup, Early
  <1>4. c.calls = k /\ p = "code" /\ u = <<>> /\ d = <<Timers>>
    BY <1>1, <1>3 DEF LiveFits, Turn
  <1>5. Tail(d) = <<>>
    BY <1>4
  <1>6. /\ c1 \in ClientState /\ c1.pc = "ready" /\ c1.spk = c.spk /\ c1.half = c.half
        /\ c1.mode = c.mode /\ c1.module = c.module /\ c1.key = c.key
        /\ c1.calls = c.calls /\ c1.got = c.got /\ c.calls \in Nat
    BY DEF ClientState, ClientPc
  <1> HIDE DEF c1
  <1>7. UpFits(s, c1, u, p, k, em, files, gone)
    BY <1>1, <1>6, UpSame
  <1>8. ~Failed(c, k)
    BY <1>4 DEF Failed
  <1>9. GotFits(s, c1, k)
    BY <1>1, <1>6, <1>8 DEF GotFits, LiveFits, Own
  <1>10. EnclaveFits(s, c1, p, k, em, e)
    BY <1>1, <1>4, <1>8 DEF EnclaveFits, LiveFits
  <1>11. c.mode = 1 => Shakes(s, c1, Tail(d), p, e)
    BY <1>1, <1>3, <1>6 DEF Shakes, LiveFits, Early, Serving
  <1>12. Turn(s, c1, u, Tail(d), p, k)
    BY <1>4, <1>5, <1>6 DEF Turn
  <1>13. LiveFits(s, c1, u, Tail(d), p, k, em, e, files)
    BY <1>1, <1>3, <1>4, <1>6, <1>9, <1>10, <1>11, <1>12 DEF LiveFits, Setup, Early, Serving
  <1> QED BY <1>3, <1>7, <1>13 DEF Fits, c1

\* The client is gone: nothing more is asked but that what it wrote is in order.
LEMMA ClientLeft ==
  ASSUME NEW s \in Sessions, NEW c \in ClientState, NEW u \in Seq(UpUnit), NEW d, NEW d1,
         NEW p \in Place, NEW k \in Nat, NEW em, NEW e, NEW files, NEW gone, NEW gone1,
         Fits(s, c, u, d, p, k, em, e, files, gone), s \notin gone, s \in gone1
  PROVE  Fits(s, [c EXCEPT !.pc = "closed"], u, d1, p, k, em, e, files, gone1)
  <1> DEFINE c1 == [c EXCEPT !.pc = "closed"]
  <1>1. UpFits(s, c, u, p, k, em, files, gone1)
    BY DEF Fits, UpFits, Line
  <1>2. /\ c1 \in ClientState /\ c1.mode = c.mode /\ c1.module = c.module
        /\ c1.key = c.key /\ c1.calls = c.calls
    BY DEF ClientState, ClientPc
  <1> HIDE DEF c1
  <1>3. UpFits(s, c1, u, p, k, em, files, gone1)
    BY <1>1, <1>2, UpSame
  <1> QED BY <1>3 DEF Fits, c1

LEMMA ClientCut ==
  ASSUME NEW s \in Sessions, NEW c \in ClientState, NEW u \in Seq(UpUnit), NEW d, NEW d1,
         NEW p \in Place, NEW k \in Nat, NEW em, NEW e, NEW files, NEW gone, NEW gone1,
         Fits(s, c, u, d, p, k, em, e, files, gone), s \notin gone, s \in gone1,
         c.pc \in {"file", "name"} \/ (c.pc = "ready" /\ Sends(c.mode)),
         NEW m \in UpUnit, CutOf(m, Unit(s, c, Written(c)))
  PROVE  Fits(s, [c EXCEPT !.pc = "closed"], Append(u, m), d1, p, k, em, e, files, gone1)
  <1> DEFINE c1 == [c EXCEPT !.pc = "closed"]
             u1 == Append(u, m)
  <1>1. LiveFits(s, c, u, d, p, k, em, e, files) /\ UpFits(s, c, u, p, k, em, files, gone)
    BY DEF Fits
  <1>2. /\ c1 \in ClientState /\ c1.mode = c.mode /\ c1.module = c.module
        /\ c1.key = c.key /\ c1.calls = c.calls
    BY DEF ClientState, ClientPc
  <1> HIDE DEF c1
  <1>a. /\ Unit(s, c1, Written(c)) = Unit(s, c, Written(c))
        /\ CodeAt(c1) = CodeAt(c)
    BY <1>2 DEF Unit, CountAt, CodeAt, Code, CallOf
  <1>b. CutUnit(m)
    BY DEF CutOf
  <1>3. CASE p \in Setup
    <2>1. /\ Starts(c, u, d, p, k)
          /\ p \notin Early => em = c.mode
          /\ p = "key" => c.mode = 1
          /\ p = "module" => c.module
          /\ Reading(c, p) + Len(u) = Written(c)
      BY <1>1, <1>3 DEF LiveFits, Starts
    <2>2. Written(c) <= CodeAt(c)
      <3>1. /\ CountAt(c) \in Nat /\ CodeAt(c) \in Nat
            /\ c.module => CodeAt(c) = CountAt(c) + 3
        BY Places
      <3>2. c.pc \in {"file", "name"} => c.module
        BY <2>1 DEF Starts
      <3>3. CASE c.pc = "file"
        BY <3>1, <3>2, <3>3 DEF Written
      <3>4. CASE c.pc = "name"
        BY <3>1, <3>2, <3>4 DEF Written
      <3>5. CASE c.pc = "ready"
        BY <3>1, <3>5 DEF Written
      <3> QED BY <3>3, <3>4, <3>5
    <2>3. UpFits(s, c1, u1, p, k, em, files, gone1)
      BY <1>1, <1>2, <1>3, <1>a, <1>b, <2>1, <2>2, UnitSent
    <2> QED BY <2>3 DEF Fits, c1
  <1>4. CASE p \in Serving
    <2>1. p = "code" /\ u = <<>> /\ em = c.mode
      BY <1>1, <1>4 DEF LiveFits, Turn, Serving, Early
    <2>2. u1 = <<m>>
      BY <2>1
    <2> HIDE DEF u1
    <2>3. Len(u1) = 1 /\ u1[1] = m /\ 1..1 = {1}
      BY <2>2
    <2>4. Reading(c1, p) = CodeAt(c1) /\ CodeAt(c1) \in Nat
      BY <1>2, <2>1, Places DEF Reading, Early
    <2>a. c.pc = "ready" /\ Written(c) = CodeAt(c)
      BY <1>1, <1>4 DEF LiveFits, Turn, Serving, Early, Written
    <2>b. Unit(s, c, Written(c)) = Unit(s, c1, Reading(c1, p))
      BY <1>a, <2>a, <2>4
    <2>5. Line(s, c1, u1, Reading(c1, p), s \in gone1)
      <3>1. Reading(c1, p) + 1 - 1 = Reading(c1, p)
        BY <2>4
      <3>2. CutOf(u1[1], Unit(s, c1, Reading(c1, p) + 1 - 1))
        BY <2>3, <2>b, <3>1
      <3> QED BY <2>3, <3>2 DEF Line
    <2>6. UpFits(s, c1, u1, p, k, em, files, gone1)
      BY <1>2, <1>b, <2>1, <2>3, <2>4, <2>5 DEF UpFits, Early
    <2> QED BY <2>6 DEF Fits, c1, u1
  <1> QED BY <1>1, <1>3, <1>4 DEF LiveFits, Place

-----------------------------------------------------------------------------
(* What the server does, seen from the session it serves.                  *)

\* The server takes one unit; the place it goes to reads the next one.
LEMMA UnitTaken ==
  ASSUME NEW s, NEW c \in ClientState, NEW u \in Seq(UpUnit), NEW p \in Place,
         NEW k, NEW em, NEW files, NEW gone,
         UpFits(s, c, u, p, k, em, files, gone), u # <<>>, p # "spin",
         NEW p1, Reading(c, p1) = Reading(c, p) + 1,
         p1 \notin {"exec", "timers", "spin"},
         NEW em1, p1 \notin Early => em1 = c.mode,
         p1 = "key" => c.mode = 1, p1 = "module" => c.module, NEW files1
  PROVE  UpFits(s, c, Tail(u), p1, k, em1, files1, gone)
  <1> DEFINE v == Tail(u)
  <1>1. /\ Reading(c, p) \in Nat /\ CodeAt(c) \in Nat
        /\ Len(u) \in Nat /\ Len(v) = Len(u) - 1
        /\ v # <<>> => v[Len(v)] = u[Len(u)]
    BY Places
  <1>2. Line(s, c, v, Reading(c, p1), s \in gone)
    BY <1>1, LineShrinks DEF UpFits
  <1> HIDE DEF v
  <1>3. Reading(c, p1) + Len(v) = Reading(c, p) + Len(u)
    BY <1>1
  <1>4. UpFits(s, c, v, p1, k, em1, files1, gone)
    BY <1>1, <1>2, <1>3 DEF UpFits
  <1> QED BY <1>4 DEF v

\* A unit that is not a cut packet is the one the server reads.
LEMMA NextRead ==
  ASSUME NEW s, NEW c \in ClientState, NEW u \in Seq(UpUnit), NEW p \in Place,
         NEW k, NEW em, NEW files, NEW gone,
         UpFits(s, c, u, p, k, em, files, gone), u # <<>>, p # "spin",
         ~CutUnit(Head(u))
  PROVE  Head(u) = Unit(s, c, Reading(c, p))
  <1>1. Line(s, c, u, Reading(c, p), s \in gone)
    BY DEF UpFits
  <1>2. 1 \in 1..Len(u) /\ Head(u) = u[1]
    OBVIOUS
  <1>3. Reading(c, p) + 1 - 1 = Reading(c, p)
    BY Places
  <1>4. \/ u[1] = Unit(s, c, Reading(c, p) + 1 - 1)
        \/ CutOf(u[1], Unit(s, c, Reading(c, p) + 1 - 1))
    BY <1>1, <1>2 DEF Line
  <1> QED BY <1>2, <1>3, <1>4 DEF CutOf

\* Only a client that is gone leaves a packet cut.
LEMMA CutGone ==
  ASSUME NEW s, NEW c \in ClientState, NEW u \in Seq(UpUnit), NEW p \in Place,
         NEW k, NEW em, NEW files, NEW gone,
         UpFits(s, c, u, p, k, em, files, gone), p # "spin",
         NEW j \in 1..Len(u), CutUnit(u[j])
  PROVE  s \in gone
  <1>1. u # <<>>
    OBVIOUS
  <1>2. Line(s, c, u, Reading(c, p), s \in gone)
    BY <1>1 DEF UpFits
  <1>3. u[j] = Unit(s, c, Reading(c, p) + j - 1) \/ s \in gone
    BY <1>2 DEF Line
  <1>4. ASSUME NEW i PROVE ~CutUnit(Unit(s, c, i))
    BY DEF CutUnit, Unit, TheInt, TheClientKey, Code, Text
  <1> QED BY <1>3, <1>4

\* The end of the file of a client that is gone.
LEMMA GoneFits ==
  ASSUME NEW s, NEW c, NEW d, NEW p, NEW k, NEW em, NEW e, NEW files,
         NEW gone, s \in gone, p # "exec" \/ files.code.out = <<>>
  PROVE  Fits(s, c, <<>>, d, p, k, em, e, files, gone)
  BY DEF Fits, UpFits

LEMMA Accepted ==
  ASSUME NEW s \in Sessions, NEW c \in ClientState, NEW u \in Seq(UpUnit), NEW d,
         NEW k, NEW em, NEW e, NEW files, NEW gone,
         Fits(s, c, u, d, "waits", k, em, e, files, gone),
         s \in gone \/ c.pc # "idle"
  PROVE  Fits(s, c, u, d, "mode", k, em, e, files, gone)
  <1>1. Reading(c, "mode") = Reading(c, "waits")
    BY DEF Reading, Early
  <1>2. UpFits(s, c, u, "mode", k, em, files, gone)
    BY <1>1 DEF Fits, UpFits, Early
  <1>3. s \notin gone => LiveFits(s, c, u, d, "mode", k, em, e, files)
    <2> SUFFICES ASSUME s \notin gone, LiveFits(s, c, u, d, "waits", k, em, e, files)
                 PROVE  LiveFits(s, c, u, d, "mode", k, em, e, files)
      BY DEF Fits
    <2>1. Starts(c, u, d, "mode", k)
      BY <1>1 DEF LiveFits, Starts, Setup
    <2>2. c.mode = 1 => Shakes(s, c, d, "mode", e)
      BY DEF LiveFits, Shakes, Early, Serving
    <2>3. EnclaveFits(s, c, "mode", k, em, e)
      BY DEF EnclaveFits, Early
    <2> QED BY <2>1, <2>2, <2>3 DEF LiveFits, Setup, Early, Serving
  <1> QED BY <1>2, <1>3 DEF Fits

\* The mode is read; mode 1 has a new enclave.
LEMMA ModeRead ==
  ASSUME NEW s \in Sessions, NEW c \in ClientState, NEW u \in Seq(UpUnit), NEW d,
         NEW k, NEW em, NEW e, NEW files, NEW gone,
         Fits(s, c, u, d, "mode", k, em, e, files, gone),
         u # <<>>, ~CutUnit(Head(u))
  PROVE  /\ Head(u) = TheInt(c.mode)
         /\ Sends(c.mode) =>
              \A p1, e1 :
                /\ p1 = IF c.mode = 1 THEN "key" ELSE "count"
                /\ c.mode = 1 => e1.open /\ e1.response = <<>> /\ ~e1.crashed
                => Fits(s, c, Tail(u), d, p1, k, c.mode, e1, files, gone)
  <1>1. UpFits(s, c, u, "mode", k, em, files, gone)
    BY DEF Fits
  <1>2. Head(u) = TheInt(c.mode)
    BY <1>1, NextRead DEF Reading, Early, Unit, Place, Setup
  <1>3. ASSUME Sends(c.mode), NEW p1, NEW e1,
               p1 = IF c.mode = 1 THEN "key" ELSE "count",
               c.mode = 1 => e1.open /\ e1.response = <<>> /\ ~e1.crashed
        PROVE  Fits(s, c, Tail(u), d, p1, k, c.mode, e1, files, gone)
    <2>1. Reading(c, "mode") = 0 /\ Reading(c, p1) = 1
      BY <1>3 DEF Reading, Early, CountAt
    <2>2. UpFits(s, c, Tail(u), p1, k, c.mode, files, gone)
      BY <1>1, <1>3, <2>1, UnitTaken DEF Early, Place, Setup
    <2>3. ASSUME s \notin gone PROVE LiveFits(s, c, Tail(u), d, p1, k, c.mode, e1, files)
      <3>1. LiveFits(s, c, u, d, "mode", k, em, e, files) /\ Starts(c, u, d, "mode", k)
        BY <2>3 DEF Fits, LiveFits, Setup
      <3>2. Len(Tail(u)) = Len(u) - 1 /\ Len(u) \in Nat
        OBVIOUS
      <3>3. Starts(c, Tail(u), d, p1, k)
        BY <1>3, <2>1, <3>1, <3>2 DEF Starts
      <3>4. Len(u) >= 1 /\ Written(c) = Len(u)
        BY <2>1, <3>1, <3>2 DEF Starts
      <3>5. c.mode = 1 => Shakes(s, c, d, p1, e1)
        BY <1>3, <3>1 DEF LiveFits, Shakes, Early, Serving
      <3>6. EnclaveFits(s, c, p1, k, c.mode, e1)
        BY <1>3 DEF EnclaveFits
      <3>7. c.pc # "idle"
        BY <3>4 DEF Written
      <3> QED BY <1>3, <3>1, <3>3, <3>5, <3>6, <3>7 DEF LiveFits, Setup, Early, Serving
    <2> QED BY <2>2, <2>3 DEF Fits
  <1> QED BY <1>2, <1>3

LEMMA Joined ==
  ASSUME NEW S, NEW x \in S, NEW y \in S
  PROVE  <<x>> \o <<y, y>> = <<x, y, y>>
  <1> DEFINE a == <<x>>
             b == <<y, y>>
             w == a \o b
             z == <<x, y, y>>
  <1>1. a \in Seq(S) /\ b \in Seq(S) /\ z \in Seq(S)
    OBVIOUS
  <1>2. Len(a) = 1 /\ Len(b) = 2 /\ Len(z) = 3
    OBVIOUS
  <1>3. a[1] = x /\ b[1] = y /\ b[2] = y /\ z[1] = x /\ z[2] = y /\ z[3] = y
    OBVIOUS
  <1> HIDE DEF a, b, z
  <1>4. /\ w \in Seq(S) /\ Len(w) = Len(a) + Len(b)
        /\ \A i \in 1..Len(a) + Len(b) : w[i] = IF i <= Len(a) THEN a[i] ELSE b[i - Len(a)]
    BY <1>1, ConcatProperties
  <1> HIDE DEF w
  <1>5. Len(w) = 3 /\ w[1] = a[1] /\ w[2] = b[1] /\ w[3] = b[2]
    BY <1>2, <1>4
  <1>6. \A i \in 1..3 : w[i] = z[i]
    BY <1>3, <1>5
  <1>7. w = z
    BY <1>1, <1>2, <1>4, <1>5, <1>6, SeqEqual
  <1> QED BY <1>7 DEF w, z, a, b

LEMMA Paired ==
  ASSUME NEW S, NEW x \in S, NEW y \in S
  PROVE  <<x>> \o <<y>> = <<x, y>>
  <1> DEFINE a == <<x>>
             b == <<y>>
             w == a \o b
             z == <<x, y>>
  <1>1. a \in Seq(S) /\ b \in Seq(S) /\ z \in Seq(S)
    OBVIOUS
  <1>2. Len(a) = 1 /\ Len(b) = 1 /\ Len(z) = 2
    OBVIOUS
  <1>3. a[1] = x /\ b[1] = y /\ z[1] = x /\ z[2] = y
    OBVIOUS
  <1> HIDE DEF a, b, z
  <1>4. /\ w \in Seq(S) /\ Len(w) = Len(a) + Len(b)
        /\ \A i \in 1..Len(a) + Len(b) : w[i] = IF i <= Len(a) THEN a[i] ELSE b[i - Len(a)]
    BY <1>1, ConcatProperties
  <1> HIDE DEF w
  <1>5. Len(w) = 2 /\ w[1] = a[1] /\ w[2] = b[1]
    BY <1>2, <1>4
  <1>6. \A i \in 1..2 : w[i] = z[i]
    BY <1>3, <1>5
  <1>7. w = z
    BY <1>1, <1>2, <1>4, <1>5, <1>6, SeqEqual
  <1> QED BY <1>7 DEF w, z, a, b

\* The keys are exchanged: e1 is the enclave with the client's public key and a new
\* symmetric key.
LEMMA HandshakeDone ==
  ASSUME NEW s \in Sessions, NEW c \in ClientState, NEW u \in Seq(UpUnit),
         NEW d \in Seq(DownUnit),
         NEW k, NEW em, NEW e \in EnclaveState, NEW files, NEW gone,
         Fits(s, c, u, d, "key", k, em, e, files, gone),
         u # <<>>, ~CutUnit(Head(u)),
         NEW key \in Nat \ {Zero}, NEW e1,
         e1 = EcallSendAesKey(EcallRegisterClient(e, Head(u).v), key)
  PROVE  Fits(s, c, Tail(u), d \o HandshakeUnits(e1), "count", k, em, e1, files, gone)
  <1>1. UpFits(s, c, u, "key", k, em, files, gone)
    BY DEF Fits
  <1>2. c.mode = 1 /\ em = 1 /\ CountAt(c) = 2
    BY <1>1 DEF UpFits, Early, CountAt
  <1>3. Head(u) = TheClientKey(s)
    <2>1. Head(u) = Unit(s, c, 1)
      BY <1>1, NextRead DEF Reading, Early, Place, Setup
    <2> QED BY <1>2, <2>1, Places DEF Unit
  <1>4. /\ e1.spk = e.spk /\ e1.key = key /\ e1.cpk = s /\ e1.open = e.open
        /\ e1.response = e.response /\ e1.crashed = e.crashed
    BY <1>3 DEF EcallSendAesKey, EcallRegisterClient, TheClientKey, EnclaveState
  <1>5. Reading(c, "key") = 1 /\ Reading(c, "count") = 2
    BY <1>2 DEF Reading, Early
  <1>6. UpFits(s, c, Tail(u), "count", k, em, files, gone)
    BY <1>1, <1>2, <1>5, UnitTaken DEF Early, Place, Setup
  <1>7. ASSUME s \notin gone
        PROVE  LiveFits(s, c, Tail(u), d \o HandshakeUnits(e1), "count", k, em, e1, files)
    <2>1. LiveFits(s, c, u, d, "key", k, em, e, files) /\ Starts(c, u, d, "key", k)
      BY <1>7 DEF Fits, LiveFits, Setup
    <2>2. Len(Tail(u)) = Len(u) - 1 /\ Len(u) \in Nat /\ Len(u) >= 1
      OBVIOUS
    <2>3. c.pc \in {"handshake", "spk"} /\ d = <<>>
      BY <1>2, <2>1 DEF LiveFits, Shakes
    <2>4. c.pc = "spk"
      BY <1>5, <2>1, <2>2, <2>3 DEF Starts, Written
    <2>5. d \o HandshakeUnits(e1) = <<TheServerKey(e1.spk), Half(s, e1), Half(s, e1)>>
      <3>1. HandshakeUnits(e1) = <<TheServerKey(e1.spk), Half(s, e1), Half(s, e1)>>
        <4>1. KeyHalves(e1) = <<Half(s, e1), Half(s, e1)>>
          BY <1>4 DEF KeyHalves, Half
        <4>2. <<TheServerKey(e1.spk)>> \o <<Half(s, e1), Half(s, e1)>>
                = <<TheServerKey(e1.spk), Half(s, e1), Half(s, e1)>>
          <5>1. TheServerKey(e1.spk) \in {TheServerKey(e1.spk), Half(s, e1)}
                /\ Half(s, e1) \in {TheServerKey(e1.spk), Half(s, e1)}
            OBVIOUS
          <5> QED BY <5>1, Joined
        <4> QED BY <4>1, <4>2 DEF HandshakeUnits
      <3> QED BY <2>3, <3>1
    <2>6. Shakes(s, c, d \o HandshakeUnits(e1), "count", e1)
      BY <2>4, <2>5 DEF Shakes, Early, Serving
    <2> HIDE <2>5
    <2>7. Starts(c, Tail(u), d \o HandshakeUnits(e1), "count", k)
      BY <1>2, <1>5, <2>1, <2>2 DEF Starts
    <2>8. EnclaveFits(s, c, "count", k, em, e1)
      BY <1>2, <1>4, <2>1 DEF LiveFits, EnclaveFits, Early
    <2> QED BY <1>2, <2>1, <2>4, <2>6, <2>7, <2>8 DEF LiveFits, Setup, Early, Serving, Sends
  <1> QED BY <1>6, <1>7 DEF Fits

\* The module count is read; without a module the first request comes next.
LEMMA CountRead ==
  ASSUME NEW s \in Sessions, NEW c \in ClientState, NEW u \in Seq(UpUnit), NEW d,
         NEW k, NEW em, NEW e, NEW files, NEW gone,
         Fits(s, c, u, d, "count", k, em, e, files, gone),
         u # <<>>, ~CutUnit(Head(u)),
         NEW p1, p1 = IF Head(u).v = 0 THEN "code" ELSE "module"
  PROVE  Fits(s, c, Tail(u), d, p1, k, em, e, files, gone)
  <1>1. UpFits(s, c, u, "count", k, em, files, gone)
    BY DEF Fits
  <1>2. /\ CountAt(c) \in Nat /\ CodeAt(c) \in Nat /\ CountAt(c) >= 1
        /\ c.module => CodeAt(c) = CountAt(c) + 3
        /\ ~c.module => CodeAt(c) = CountAt(c) + 1
    BY Places
  <1>3. Head(u) = TheInt(IF c.module THEN 1 ELSE 0)
    <2>1. Head(u) = Unit(s, c, CountAt(c))
      BY <1>1, NextRead DEF Reading, Early, Place, Setup
    <2> QED BY <1>2, <2>1 DEF Unit
  <1>4. p1 = IF c.module THEN "module" ELSE "code"
    BY <1>3 DEF TheInt
  <1>5. /\ Reading(c, "count") = CountAt(c) /\ Reading(c, p1) = CountAt(c) + 1
        /\ c.module \in BOOLEAN
    BY <1>2, <1>4 DEF Reading, Early, ClientState
  <1>6. em = c.mode
    BY <1>1 DEF UpFits, Early
  <1>7. UpFits(s, c, Tail(u), p1, k, em, files, gone)
    BY <1>1, <1>4, <1>5, <1>6, UnitTaken DEF Place, Setup
  <1>8. ASSUME s \notin gone PROVE LiveFits(s, c, Tail(u), d, p1, k, em, e, files)
    <2>1. LiveFits(s, c, u, d, "count", k, em, e, files) /\ Starts(c, u, d, "count", k)
      BY <1>8 DEF Fits, LiveFits, Setup
    <2>2. Len(Tail(u)) = Len(u) - 1 /\ Len(u) \in Nat /\ Len(u) >= 1
      OBVIOUS
    <2>3. CountAt(c) + Len(u) = Written(c)
      BY <1>5, <2>1 DEF Starts
    <2>4. ~(em = 1 /\ e.crashed) /\ EnclaveFits(s, c, p1, k, em, e)
      BY <1>4, <2>1 DEF LiveFits, EnclaveFits, Early
    <2>5. c.mode = 1 => /\ Shakes(s, c, d, p1, e)
                        /\ p1 = "code" => d = <<>> /\ c.key = e.key
      <3>1. c.pc \notin {"spk", "half1", "half2"}
        <4>1. Written(c) > CountAt(c)
          BY <1>2, <2>2, <2>3
        <4>2. CASE c.mode = 1
          BY <4>1, <4>2 DEF Written, CountAt
        <4>3. CASE c.mode # 1
          BY <2>1, <4>3 DEF LiveFits
        <4> QED BY <4>2, <4>3
      <3>2. c.mode = 1 => c.pc \in {"count", "file", "name", "ready", "response"}
                          /\ c.key = e.key /\ d = <<>>
        BY <2>1, <3>1 DEF LiveFits, Shakes
      <3> QED BY <1>4, <3>2 DEF Shakes, Early, Serving
    <2>6. CASE c.module
      <3>1. p1 = "module"
        BY <1>4, <2>6
      <3>2. Starts(c, Tail(u), d, p1, k)
        <4>1. Reading(c, p1) + Len(Tail(u)) = Written(c)
          BY <1>2, <1>5, <2>2, <2>3
        <4> QED BY <2>1, <2>6, <3>1, <4>1 DEF Starts
      <3> QED BY <1>6, <2>1, <2>4, <2>5, <3>1, <3>2 DEF LiveFits, Setup, Early, Serving
    <2>7. CASE ~c.module
      <3>1. p1 = "code" /\ (c.mode # 1 => d = <<>>)
        BY <1>4, <2>1, <2>7 DEF Starts
      <3>2. c.pc \in {"ready", "response"}
        <4>1. c.pc \notin {"file", "name"}
          BY <2>1, <2>7 DEF Starts
        <4>2. c.pc \notin {"timers", "closed"}
          BY <2>1 DEF LiveFits, Starts, Early
        <4>3. CASE c.mode = 1
          BY <1>2, <2>2, <2>3, <4>1, <4>2, <4>3 DEF Written, CountAt, ClientState, ClientPc
        <4>4. CASE c.mode # 1
          <5>1. c.pc \notin {"handshake", "spk", "half1", "half2", "idle"}
            BY <2>1, <4>4 DEF LiveFits
          <5> QED BY <1>2, <2>2, <2>3, <4>1, <4>2, <5>1 DEF Written, ClientState, ClientPc
        <4> QED BY <4>3, <4>4
      <3>3. /\ c.pc = "ready" => Len(Tail(u)) = 0
            /\ c.pc = "response" => Len(Tail(u)) = 1
        BY <1>2, <2>2, <2>3, <2>7, <3>2 DEF Written
      <3> DEFINE v == Tail(u)
      <3>4. /\ v \in Seq(UpUnit)
            /\ c.pc = "ready" => Len(v) = 0
            /\ c.pc = "response" => Len(v) = 1
        BY <3>3
      <3> HIDE DEF v
      <3>a. Len(v) = 0 => v = <<>>
        BY <3>4
      <3>5. c.pc = "ready" => v = <<>>
        BY <3>4, <3>a
      <3>6. c.pc = "response" => v = <<Code(s, c)>>
        <4> SUFFICES ASSUME c.pc = "response" PROVE v = <<Code(s, c)>>
          OBVIOUS
        <4>a. Len(v) = 1
          BY <3>4
        <4>1. v # <<>>
          <5> SUFFICES ASSUME v = <<>> PROVE FALSE
            OBVIOUS
          <5>1. Len(v) = Len(<<>>)
            OBVIOUS
          <5>2. Len(<<>>) = 0
            OBVIOUS
          <5> QED BY <4>a, <5>1, <5>2
        <4>2. Line(s, c, v, CodeAt(c), s \in gone)
          BY <1>2, <1>5, <1>7, <2>7, <3>1, <4>1 DEF UpFits, v
        <4>3. v[1] = Unit(s, c, CodeAt(c) + 1 - 1)
          BY <1>8, <4>a, <4>2 DEF Line
        <4>4. Unit(s, c, CodeAt(c)) = Code(s, c) /\ CodeAt(c) + 1 - 1 = CodeAt(c)
          BY <1>2, Places DEF Unit
        <4> QED BY <3>4, <4>a, <4>3, <4>4
      <3>7. d = <<>> /\ k = 0 /\ c.calls = (IF c.pc = "response" THEN 1 ELSE 0)
        <4>1. k = 0 /\ c.calls = (IF c.pc = "response" THEN 1 ELSE 0)
          BY <2>1 DEF Starts
        <4>2. d = <<>>
          BY <2>5, <3>1
        <4> QED BY <4>1, <4>2
      <3>8. Turn(s, c, v, d, "code", k)
        BY <3>2, <3>5, <3>6, <3>7 DEF Turn
      <3>9. LiveFits(s, c, v, d, "code", k, em, e, files)
        <4>1. /\ EnclaveFits(s, c, "code", k, em, e)
              /\ c.mode = 1 => Shakes(s, c, d, "code", e)
          BY <2>4, <2>5, <3>1
        <4> HIDE <2>5, <2>4
        <4>2. /\ c.pc # "closed" /\ GotFits(s, c, k) /\ c.pc # "idle"
              /\ c.mode # 1 => c.key = Zero /\ c.pc \notin {"handshake", "spk", "half1", "half2"}
              /\ Sends(c.mode) /\ ~(em = 1 /\ e.crashed)
          BY <2>1, <2>4, <3>2 DEF LiveFits, Early
        <4> QED BY <1>6, <2>7, <3>8, <4>1, <4>2 DEF LiveFits, Setup, Early, Serving
      <3> QED BY <3>1, <3>9, <1>4, <2>7 DEF v
    <2> QED BY <2>6, <2>7
  <1> QED BY <1>7, <1>8 DEF Fits

\* The module file and its name are read and the file is written.
LEMMA ModuleRead ==
  ASSUME NEW s \in Sessions, NEW c \in ClientState, NEW u \in Seq(UpUnit), NEW d,
         NEW k, NEW em, NEW e, NEW files, NEW files1, NEW gone,
         Fits(s, c, u, d, "module", k, em, e, files, gone),
         Len(u) >= 2, ~CutUnit(u[1]), ~CutUnit(u[2]),
         files1.module = [out |-> u[1].out, key |-> u[1].key]
  PROVE  Fits(s, c, Tail(Tail(u)), d, "code", k, em, e, files1, gone)
  <1> DEFINE t == Tail(u)
             v == Tail(t)
  <1>1. /\ u # <<>> /\ Head(u) = u[1]
        /\ t \in Seq(UpUnit) /\ t # <<>> /\ Head(t) = u[2] /\ Len(u) = Len(t) + 1
        /\ v \in Seq(UpUnit) /\ Len(t) = Len(v) + 1 /\ Len(v) \in Nat
    <2>1. u # <<>> /\ Head(u) = u[1] /\ Len(u) \in Nat
      OBVIOUS
    <2>2. t \in Seq(UpUnit) /\ Len(u) = Len(t) + 1 /\ t[1] = u[2]
      BY <2>1
    <2> HIDE DEF t
    <2>3. t # <<>>
      BY <2>2
    <2>4. Head(t) = t[1] /\ v \in Seq(UpUnit) /\ Len(t) = Len(v) + 1 /\ Len(v) \in Nat
      BY <2>2, <2>3
    <2> QED BY <2>1, <2>2, <2>3, <2>4
  <1>2. UpFits(s, c, u, "module", k, em, files, gone)
    BY DEF Fits
  <1>3. c.module /\ em = c.mode /\ CodeAt(c) = CountAt(c) + 3
    <2>1. c.module /\ em = c.mode
      BY <1>1, <1>2 DEF UpFits, Early
    <2> QED BY <2>1, Places
  <1>4. /\ CountAt(c) \in Nat /\ CountAt(c) >= 1 /\ CodeAt(c) \in Nat
        /\ Reading(c, "module") = CountAt(c) + 1
        /\ Reading(c, "code") = CountAt(c) + 3
    BY <1>3, Places DEF Reading, Early
  <1>5. u[1] = Text("module", ModuleOf(s), c.key)
    <2>1. u[1] = Unit(s, c, CountAt(c) + 1)
      BY <1>1, <1>2, <1>4, NextRead DEF Place, Setup
    <2>2. CountAt(c) + 1 # 1
      BY <1>4
    <2> QED BY <1>3, <1>4, <2>1, <2>2 DEF Unit
  <1>6. files1.module = [out |-> ModuleOf(s), key |-> c.key]
    BY <1>5 DEF Text
  <1> HIDE DEF t, v
  <1>7. Line(s, c, v, CountAt(c) + 3, s \in gone)
    <2>1. Line(s, c, u, CountAt(c) + 1, s \in gone)
      BY <1>1, <1>2, <1>4 DEF UpFits
    <2>2. CountAt(c) + 1 \in Nat
      BY <1>4
    <2>3. Line(s, c, t, CountAt(c) + 1 + 1, s \in gone)
      BY <1>1, <2>1, <2>2, LineShrinks DEF t
    <2>4. CountAt(c) + 1 + 1 \in Nat
      BY <1>4
    <2>5. Line(s, c, v, CountAt(c) + 1 + 1 + 1, s \in gone)
      BY <1>1, <2>3, <2>4, LineShrinks DEF v
    <2>6. CountAt(c) + 1 + 1 + 1 = CountAt(c) + 3
      BY <1>4
    <2> QED BY <2>5, <2>6
  <1>8. UpFits(s, c, v, "code", k, em, files1, gone)
    <2>1. /\ Reading(c, "module") + Len(u) <= CodeAt(c) + 1
          /\ Reading(c, "module") + Len(u) = CodeAt(c) + 1 /\ ~CutUnit(u[Len(u)])
             => c.calls = k + 1
      BY <1>1, <1>2 DEF UpFits
    <2>2. Reading(c, "module") + Len(u) = Reading(c, "code") + Len(v)
      BY <1>1, <1>4
    <2>3. v # <<>> => v[Len(v)] = u[Len(u)]
      <3>1. v # <<>> => v[Len(v)] = t[Len(t)]
        BY <1>1 DEF v
      <3>2. t[Len(t)] = u[Len(u)]
        BY <1>1 DEF t
      <3> QED BY <3>1, <3>2
    <2> QED BY <1>3, <1>4, <1>7, <2>1, <2>2, <2>3 DEF UpFits, Early
  <1>9. ASSUME s \notin gone PROVE LiveFits(s, c, v, d, "code", k, em, e, files1)
    <2>1. LiveFits(s, c, u, d, "module", k, em, e, files) /\ Starts(c, u, d, "module", k)
      BY <1>9 DEF Fits, LiveFits, Setup
    <2>2. CodeAt(c) + Len(v) = Written(c)
      <3>1. Reading(c, "module") + Len(u) = Written(c)
        BY <2>1 DEF Starts
      <3> QED BY <1>1, <1>3, <1>4, <3>1
    <2>3. ~(em = 1 /\ e.crashed) /\ EnclaveFits(s, c, "code", k, em, e)
      BY <2>1 DEF LiveFits, EnclaveFits, Early
    <2>4. c.pc \in {"ready", "response"}
      <3>1. c.pc \notin {"timers", "closed"}
        BY <1>3, <2>1 DEF LiveFits, Starts, Early
      <3>2. CodeAt(c) > CountAt(c) + 2 /\ CodeAt(c) >= 4
        BY <1>3, <1>4
      <3>3. Written(c) >= CodeAt(c)
        BY <1>1, <1>4, <2>2
      <3>4. c.pc \in {"ready", "response", "timers", "closed"}
        BY <1>4, <3>2, <3>3 DEF Written, ClientState, ClientPc
      <3> QED BY <3>1, <3>4
    <2>5. c.mode = 1 => d = <<>> /\ c.key = e.key
      BY <2>1, <2>4 DEF LiveFits, Shakes, Early
    <2>6. d = <<>> /\ k = 0 /\ c.calls = (IF c.pc = "response" THEN 1 ELSE 0)
      <3>1. k = 0 /\ c.calls = (IF c.pc = "response" THEN 1 ELSE 0) /\ (c.mode # 1 => d = <<>>)
        BY <2>1 DEF Starts
      <3> QED BY <2>5, <3>1
    <2>7. c.pc = "ready" => v = <<>>
      <3>1. c.pc = "ready" => Written(c) = CodeAt(c)
        BY DEF Written
      <3>2. c.pc = "ready" => Len(v) = 0
        BY <1>1, <1>3, <1>4, <2>2, <3>1
      <3> QED BY <1>1, <3>2
    <2>8. c.pc = "response" => v = <<Code(s, c)>>
      <3> SUFFICES ASSUME c.pc = "response" PROVE v = <<Code(s, c)>>
        OBVIOUS
      <3>a. Written(c) = CodeAt(c) + 1
        BY DEF Written
      <3>1. Len(v) = 1
        <4> DEFINE n == Len(v)
                   m == CodeAt(c)
        <4>1. n \in Nat /\ m \in Nat /\ m + n = m + 1
          BY <1>1, <1>4, <2>2, <3>a
        <4> HIDE DEF n, m
        <4>2. n = 1
          BY <4>1
        <4> QED BY <4>2 DEF n
      <3>2. v[1] = Unit(s, c, CountAt(c) + 3 + 1 - 1)
        BY <1>7, <1>9, <3>1 DEF Line
      <3>3. Unit(s, c, CodeAt(c)) = Code(s, c) /\ CountAt(c) + 3 + 1 - 1 = CodeAt(c)
        BY <1>3, <1>4 DEF Unit
      <3> QED BY <1>1, <3>1, <3>2, <3>3
    <2>9. Turn(s, c, v, d, "code", k)
      BY <2>4, <2>6, <2>7, <2>8 DEF Turn
    <2>10. c.mode = 1 => Shakes(s, c, d, "code", e)
      BY <2>5 DEF Shakes, Early
    <2>11. /\ GotFits(s, c, k) /\ Sends(c.mode)
           /\ c.mode # 1 => c.key = Zero
      BY <2>1 DEF LiveFits, Early
    <2> HIDE <2>6
    <2> QED BY <1>3, <1>6, <2>3, <2>4, <2>9, <2>10, <2>11
            DEF LiveFits, Setup, Early, Serving
  <1> QED BY <1>8, <1>9 DEF Fits, t, v

\* A request is read and written to code.lua; the local mode has a new enclave.
LEMMA CodeRead ==
  ASSUME NEW s \in Sessions, NEW c \in ClientState, NEW u \in Seq(UpUnit), NEW d,
         NEW k \in Nat, NEW em, NEW e, NEW e1, NEW files, NEW files1, NEW gone,
         Fits(s, c, u, d, "code", k, em, e, files, gone),
         u # <<>>, ~CutUnit(Head(u)),
         files1.code = [out |-> Head(u).out, key |-> Head(u).key],
         files1.module = files.module,
         e1 = IF em = 2 THEN Bootstrap(Loaded) ELSE e
  PROVE  Fits(s, c, Tail(u), d, "exec", k, em, e1, files1, gone)
  <1>1. UpFits(s, c, u, "code", k, em, files, gone)
    BY DEF Fits
  <1>2. Reading(c, "code") = CodeAt(c) /\ CodeAt(c) \in Nat /\ CountAt(c) \in Nat
        /\ CodeAt(c) > CountAt(c) /\ CountAt(c) >= 1
    BY Places DEF Reading, Early
  <1>3. Head(u) = Code(s, c)
    <2>1. Head(u) = Unit(s, c, CodeAt(c))
      BY <1>1, <1>2, NextRead DEF Place, Serving
    <2> QED BY <1>2, <2>1 DEF Unit
  <1>4. Len(u) = 1 /\ Tail(u) = <<>>
    <2>1. Len(u) \in Nat /\ Len(u) >= 1
      OBVIOUS
    <2>2. Reading(c, "code") + Len(u) <= CodeAt(c) + 1
      BY <1>1 DEF UpFits
    <2> DEFINE n == Len(u)
    <2>3. n \in Nat /\ n >= 1 /\ CodeAt(c) + n <= CodeAt(c) + 1
      BY <1>2, <2>1, <2>2
    <2> HIDE DEF n
    <2>4. n = 1
      BY <1>2, <2>3
    <2> DEFINE w == Tail(u)
    <2>5. w \in Seq(UpUnit) /\ Len(w) = 0
      BY <2>4 DEF n
    <2> HIDE DEF w
    <2>6. w = <<>>
      BY <2>5
    <2> QED BY <2>4, <2>6 DEF n, w
  <1>5. c.calls = k + 1 /\ em = c.mode
    <2>1. Head(u) = u[1]
      OBVIOUS
    <2> QED BY <1>1, <1>2, <1>4, <2>1 DEF UpFits, Early
  <1>6. files1.code = [out |-> <<CallOf(s, c)>>, key |-> c.key]
    BY <1>3 DEF Code, Text
  <1>7. UpFits(s, c, <<>>, "exec", k, em, files1, gone)
    BY <1>5, <1>6 DEF UpFits
  <1>8. ASSUME s \notin gone PROVE LiveFits(s, c, <<>>, d, "exec", k, em, e1, files1)
    <2>1. LiveFits(s, c, u, d, "code", k, em, e, files) /\ Turn(s, c, u, d, "code", k)
      BY <1>8 DEF Fits, LiveFits, Serving
    <2>2. c.pc = "response" /\ d = <<>>
      BY <2>1 DEF Turn
    <2>3. Turn(s, c, <<>>, d, "exec", k)
      BY <1>5, <2>2 DEF Turn
    <2>4. EnclaveFits(s, c, "exec", k, em, e1)
      BY <2>1 DEF LiveFits, EnclaveFits, Early
    <2>5. c.mode = 1 => Shakes(s, c, d, "exec", e1)
      BY <1>5, <2>1 DEF LiveFits, Shakes, Early, Serving
    <2>6. c.module => files1.module = [out |-> ModuleOf(s), key |-> c.key]
      BY <2>1 DEF LiveFits, Serving
    <2>7. /\ GotFits(s, c, k) /\ Sends(c.mode)
          /\ c.mode # 1 => c.key = Zero
      BY <2>1 DEF LiveFits, Early
    <2> HIDE <2>2
    <2>8. c.pc = "response"
      BY <2>2
    <2> QED BY <1>5, <1>6, <2>3, <2>4, <2>5, <2>6, <2>7, <2>8
            DEF LiveFits, Setup, Early, Serving
  <1> QED BY <1>4, <1>7, <1>8 DEF Fits

\* A VM e that can run the request of c, the files it finds, and what it prints.
CanRun(e, c) ==
  /\ e.open /\ ~e.crashed /\ e.response = <<>>
  /\ e.plain => c.key = Zero
  /\ ~e.plain => c.key = e.key
HasRequest(s, c, files) ==
  /\ files.code = [out |-> <<CallOf(s, c)>>, key |-> c.key]
  /\ c.module => files.module = [out |-> ModuleOf(s), key |-> c.key]
RunsTo(s, c, e, files) ==
  /\ Runs(e, files.code)
  /\ \E reply \in Own(s, c, c.calls) :
       Main(e, files.code, files.module) = [e EXCEPT !.response = reply.out, !.open = ~e.plain]

LEMMA RequestRuns ==
  ASSUME NEW s \in Sessions, NEW c \in ClientState, NEW e \in EnclaveState, NEW files,
         CanRun(e, c), HasRequest(s, c, files), files.module \in File
  PROVE  RunsTo(s, c, e, files)
  <1>1. files.code.out = <<CallOf(s, c)>> /\ files.code.key = c.key
    BY DEF HasRequest
  <1>2. Head(files.code.out) = CallOf(s, c) /\ files.code.out # <<>>
    BY <1>1
  <1> DEFINE printed == Printed(e, CallOf(s, c), files.module)
             reply   == [what |-> "result", out |-> <<printed>>]
  <1>3. reply \in Own(s, c, c.calls)
    <2> DEFINE o == IF Reads(e, files.module) /\ files.module.out # <<>>
                    THEN Head(files.module.out).s ELSE NoSession
    <2>1. printed = [s |-> s, n |-> c.calls, mod |-> o]
      BY DEF Printed, CallOf, RequestOf
    <2>2. o \in Sessions \union {NoSession}
      <3>1. files.module.out # <<>> => Head(files.module.out) \in Request
        BY DEF File
      <3> QED BY <3>1 DEF Request
    <2>3. c.module => o = s
      <3>1. ModuleOf(s) # <<>> /\ Head(ModuleOf(s)).s = s
        BY DEF ModuleOf, RequestOf
      <3> QED BY <3>1 DEF Reads, CanRun, HasRequest
    <2> HIDE DEF o, printed
    <2> QED BY <2>1, <2>2, <2>3 DEF Own
  <1>4. Append(e.response, printed) = <<printed>>
    BY DEF CanRun
  <1>5. Main(e, files.code, files.module) =
          [e EXCEPT !.response = <<printed>>, !.open = e.open /\ ~e.plain]
    BY <1>2, <1>4 DEF Main, EnclaveState
  <1> HIDE DEF printed
  <1>6. (e.open /\ ~e.plain) = ~e.plain
    BY DEF EnclaveState, CanRun
  <1>7. Runs(e, files.code)
    BY <1>1, <1>2 DEF Runs, Reads, CanRun
  <1>8. Main(e, files.code, files.module) = [e EXCEPT !.response = reply.out, !.open = ~e.plain]
    BY <1>5, <1>6
  <1> QED BY <1>3, <1>7, <1>8 DEF RunsTo

\* The session being served when its request is to be executed.
AtExec(s, c, u, d, k, em, e, files) ==
  /\ c.pc = "response" /\ c.calls = k + 1 /\ u = <<>> /\ d = <<>>
  /\ em = c.mode /\ Sends(c.mode)
  /\ c.mode # 1 => c.key = Zero
  /\ c.mode = 1 => /\ c.key = e.key /\ e.open /\ e.response = <<>> /\ ~e.crashed
                   /\ e.cpk = s /\ e.key # Zero
  /\ c.mode = 2 => e = Bootstrap(Loaded)
  /\ HasRequest(s, c, files)
  /\ GotFits(s, c, k)

LEMMA ExecReached ==
  ASSUME NEW s, NEW c, NEW u, NEW d, NEW k, NEW em, NEW e, NEW files,
         LiveFits(s, c, u, d, "exec", k, em, e, files)
  PROVE  AtExec(s, c, u, d, k, em, e, files)
  <1>1. c.pc = "response" /\ c.calls = k + 1 /\ u = <<>> /\ d = <<>>
    BY DEF LiveFits, Turn, Serving
  <1>2. em = c.mode /\ Sends(c.mode) /\ (c.mode # 1 => c.key = Zero)
    BY DEF LiveFits, Early
  <1>3. c.mode = 1 => c.key = e.key
    BY DEF LiveFits, Shakes, Serving
  <1>4. /\ em = 1 => /\ e.open /\ e.response = <<>> /\ ~e.crashed
                     /\ e.cpk = s /\ e.key # Zero
        /\ em = 2 => e = Bootstrap(Loaded)
    BY DEF LiveFits, EnclaveFits, Early
  <1>5. /\ files.code = [out |-> <<CallOf(s, c)>>, key |-> c.key]
        /\ c.module => files.module = [out |-> ModuleOf(s), key |-> c.key]
        /\ GotFits(s, c, k)
    BY DEF LiveFits, Serving
  <1> QED BY <1>1, <1>2, <1>3, <1>4, <1>5 DEF AtExec, HasRequest

LEMMA Executed ==
  ASSUME NEW s \in Sessions, NEW c \in ClientState, NEW u \in Seq(UpUnit),
         NEW d \in Seq(DownUnit),
         NEW k \in Nat, NEW em, NEW e, NEW e1, NEW files, NEW gone, NEW packet,
         Fits(s, c, u, d, "exec", k, em, e, files, gone),
         s \notin gone => /\ packet \in Results(s, c)
                          /\ em = 1 => /\ e1.open /\ e1.response = <<>> /\ ~e1.crashed
                                       /\ e1.key = e.key /\ e1.cpk = e.cpk
                          /\ em = 2 => ~e1.crashed
  PROVE  Fits(s, c, u, d \o <<packet>>, "timers", k + 1, em, e1, files, gone)
  <1>1. u = <<>>
    BY DEF Fits, UpFits
  <1>2. UpFits(s, c, u, "timers", k + 1, em, files, gone)
    BY <1>1 DEF UpFits
  <1>3. ASSUME s \notin gone
        PROVE  LiveFits(s, c, u, d \o <<packet>>, "timers", k + 1, em, e1, files)
    <2>1. LiveFits(s, c, u, d, "exec", k, em, e, files)
      BY <1>3 DEF Fits
    <2>a. AtExec(s, c, u, d, k, em, e, files)
      BY <2>1, ExecReached
    <2> DEFINE d1 == d \o <<packet>>
    <2>2. d1 = <<packet>> /\ packet \in Results(s, c)
      <3>1. d = <<>> /\ packet \in Results(s, c)
        BY <1>3, <2>a DEF AtExec, HasRequest
      <3> QED BY <3>1
    <2> HIDE DEF d1
    <2>3. Turn(s, c, u, d1, "timers", k + 1)
      BY <1>1, <2>2, <2>a DEF AtExec, HasRequest, Turn
    <2>4. EnclaveFits(s, c, "timers", k + 1, em, e1)
      BY <1>3, <2>a DEF AtExec, HasRequest, EnclaveFits
    <2>5. c.mode = 1 => Shakes(s, c, d1, "timers", e1)
      BY <1>3, <2>a DEF AtExec, HasRequest, Shakes, Early
    <2>6. GotFits(s, c, k + 1)
      BY <2>a DEF AtExec, HasRequest, GotFits
    <2>7. LiveFits(s, c, u, d1, "timers", k + 1, em, e1, files)
      BY <2>1, <2>3, <2>4, <2>5, <2>6, <2>a DEF AtExec, HasRequest, LiveFits, Setup, Early, Serving
    <2> QED BY <2>7 DEF d1
  <1> QED BY <1>2, <1>3 DEF Fits

\* The request raised an error: no result is sent.
LEMMA Unexecuted ==
  ASSUME NEW s \in Sessions, NEW c \in ClientState, NEW u \in Seq(UpUnit),
         NEW d \in Seq(DownUnit),
         NEW k \in Nat, NEW em, NEW e, NEW e1, NEW files, NEW gone,
         Fits(s, c, u, d, "exec", k, em, e, files, gone),
         s \notin gone => /\ LuaErrors
                          /\ em = 1 => /\ e1.open = e.open /\ e1.response = e.response
                                       /\ e1.key = e.key /\ e1.cpk = e.cpk
  PROVE  Fits(s, c, u, d, "timers", k, em, e1, files, gone)
  <1>1. u = <<>>
    BY DEF Fits, UpFits
  <1>2. UpFits(s, c, u, "timers", k, em, files, gone)
    BY <1>1 DEF UpFits
  <1>3. ASSUME s \notin gone
        PROVE  LiveFits(s, c, u, d, "timers", k, em, e1, files)
    <2>1. LiveFits(s, c, u, d, "exec", k, em, e, files)
      BY <1>3 DEF Fits
    <2>a. AtExec(s, c, u, d, k, em, e, files)
      BY <2>1, ExecReached
    <2>2. Failed(c, k)
      BY <1>3, <2>a DEF AtExec, HasRequest, Failed
    <2>3. Turn(s, c, u, d, "timers", k)
      BY <1>1, <2>2, <2>a DEF AtExec, HasRequest, Turn
    <2>4. EnclaveFits(s, c, "timers", k, em, e1)
      BY <1>3, <2>2, <2>a DEF AtExec, HasRequest, EnclaveFits
    <2>5. c.mode = 1 => Shakes(s, c, d, "timers", e1)
      BY <1>3, <2>a DEF AtExec, HasRequest, Shakes, Early
    <2>7. LiveFits(s, c, u, d, "timers", k, em, e1, files)
      BY <2>1, <2>3, <2>4, <2>5, <2>a DEF AtExec, HasRequest, LiveFits, Setup, Early, Serving
    <2> QED BY <2>7
  <1> QED BY <1>2, <1>3 DEF Fits

LEMMA TimersSent ==
  ASSUME NEW s \in Sessions, NEW c \in ClientState, NEW u \in Seq(UpUnit),
         NEW d \in Seq(DownUnit),
         NEW k \in Nat, NEW em, NEW e, NEW files, NEW gone,
         Fits(s, c, u, d, "timers", k, em, e, files, gone)
  PROVE  Fits(s, c, u, d \o <<Timers>>, "code", k, em, e, files, gone)
  <1>1. u = <<>>
    BY DEF Fits, UpFits
  <1>2. UpFits(s, c, u, "code", k, em, files, gone)
    BY <1>1 DEF UpFits
  <1>3. ASSUME s \notin gone
        PROVE  LiveFits(s, c, u, d \o <<Timers>>, "code", k, em, e, files)
    <2> DEFINE d1 == d \o <<Timers>>
    <2>1. LiveFits(s, c, u, d, "timers", k, em, e, files)
      BY <1>3 DEF Fits
    <2>2. Turn(s, c, u, d, "timers", k)
      BY <2>1 DEF LiveFits, Serving
    <2>a. d = <<>> => d1 = <<Timers>>
      OBVIOUS
    <2>b. ASSUME NEW m PROVE <<m>> \o <<Timers>> = <<m, Timers>>
      <3>1. m \in {m, Timers} /\ Timers \in {m, Timers}
        OBVIOUS
      <3> QED BY <3>1, Paired
    <2>c. \A m \in Results(s, c) : d = <<m>> => d1 = <<m, Timers>>
      BY <2>b
    <2> HIDE DEF d1
    <2>3. Turn(s, c, u, d1, "code", k)
      BY <2>2, <2>a, <2>c DEF Turn
    <2>4. c.pc \in {"response", "timers"}
      BY <2>2 DEF Turn
    <2>5. EnclaveFits(s, c, "code", k, em, e)
      BY <2>1 DEF LiveFits, EnclaveFits, Early
    <2>6. c.mode = 1 => Shakes(s, c, d1, "code", e)
      BY <2>1 DEF LiveFits, Shakes, Early, Serving
    <2>7. LiveFits(s, c, u, d1, "code", k, em, e, files)
      BY <1>1, <2>1, <2>3, <2>4, <2>5, <2>6 DEF LiveFits, Setup, Early, Serving
    <2> QED BY <2>7 DEF d1
  <1> QED BY <1>2, <1>3 DEF Fits
=============================================================================
