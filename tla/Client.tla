------------------------------- MODULE Client -------------------------------
(***************************************************************************)
(* The client library: lclient.lua over liblclient (client.c).  A session  *)
(* is one connection: lines_from connects it (and shakes hands in mode 1), *)
(* send_modules uploads at most one file, every wrapped function call goes *)
(* through offload, and close_worker ends it.                              *)
(***************************************************************************)
EXTENDS Wire

CONSTANTS Modes,     \* the modes clients ask for: 0 plain VM, 1 encrypted
                     \* enclave, 2 plain enclave; anything else is unknown
          MaxCalls,  \* bound on the calls of one session
          Crashes    \* whether client processes may die

ASSUME ModesAssumption    == Modes \subseteq Nat
ASSUME MaxCallsAssumption == MaxCalls \in Nat
ASSUME CrashesAssumption  == Crashes \in BOOLEAN

VARIABLE cli

ClientPc == {"idle", "handshake", "spk", "half1", "half2", "count", "file",
             "name", "ready", "response", "timers", "closed"}

\* What a call returns: a packet's text as the client reads it, or what is
\* left of it when the server is gone.
Reply == [what : {"code", "module", "name", "result", "timers", "eof"},
          out : Seq(Request)]

ClientState ==
  [pc : ClientPc, mode : Nat, module : BOOLEAN, calls : Nat,
   spk : Nat, half : Nat, key : Nat, got : Seq(Reply)]

ClientInit ==
  cli = [s \in Sessions |->
           [pc |-> "idle", mode |-> 0, module |-> FALSE, calls |-> 0,
            spk |-> Zero, half |-> Zero, key |-> Zero, got |-> <<>>]]

ClientTypeOK == cli \in [Sessions -> ClientState]

Sends(m) == m \in {0, 1, 2}   \* the branches of offload that send the code

-----------------------------------------------------------------------------
(* Connecting and the handshake.                                           *)

\* lconnect, then the mode.  connect(2) blocks while the accept queue is full.
Connect(s) ==
  /\ cli[s].pc = "idle"
  /\ up
  /\ Len(backlog) <= Backlog
  /\ backlog' = Append(backlog, s)
  /\ \E m \in Modes, mod \in BOOLEAN :
       /\ cli' = [cli EXCEPT ![s].pc = IF m = 1 THEN "handshake" ELSE "count",
                             ![s].mode = m, ![s].module = mod]
       /\ SendUp(s, TheInt(m))
  /\ UNCHANGED <<s2c, fin, rst, up>>

\* lhandshake generates a key pair and sends the public key.
SendPublicKey(s) ==
  /\ cli[s].pc = "handshake"
  /\ cli' = [cli EXCEPT ![s].pc = "spk"]
  /\ SendUp(s, TheClientKey(s))
  /\ UNCHANGED <<s2c, fin, rst, up, backlog>>

\* recv_shared_key: one read; at end of file the zeroed buffer stays.
RecvServerKey(s) ==
  /\ cli[s].pc = "spk"
  /\ \/ /\ ArrivedDown(s, {"spk"})
        /\ cli' = [cli EXCEPT ![s].pc = "half1", ![s].spk = Head(s2c[s]).v]
        /\ TakeDown(s)
     \/ /\ EofDown(s)
        /\ cli' = [cli EXCEPT ![s].pc = "half1"]
        /\ UNCHANGED s2c
  /\ UNCHANGED <<c2s, fin, rst, up, backlog>>

\* crypto_box_open with the client's own pair and the public key it received.
Opened(s, box) == IF box.cpk = s /\ box.spk = cli[s].spk THEN box.v ELSE Zero

\* recv_data and decrypt, twice.  At end of file decrypt's malloc fails and it
\* writes through NULL: the client ends (Fail).
RecvHalf(s) ==
  /\ cli[s].pc \in {"half1", "half2"}
  /\ ArrivedDown(s, {"box"})
  /\ LET v == Opened(s, Head(s2c[s]))
     IN  cli' = IF cli[s].pc = "half1"
                THEN [cli EXCEPT ![s].pc = "half2", ![s].half = v]
                ELSE [cli EXCEPT ![s].pc = "count",
                                 ![s].key = IF v = cli[s].half THEN v ELSE Zero]
  /\ TakeDown(s)
  /\ UNCHANGED <<c2s, fin, rst, up, backlog>>

-----------------------------------------------------------------------------
(* The module upload.                                                      *)

ModuleOf(s) == <<RequestOf(s, 0)>>

\* Mutant: the file is sent without the key.
NextUnitPlain(s) ==
  CASE cli[s].pc = "count" -> TheInt(IF cli[s].module THEN 1 ELSE 0)
    [] cli[s].pc = "file"  -> Text("module", ModuleOf(s), Zero)
    [] cli[s].pc = "name"  -> Text("name", <<>>, Zero)
    [] OTHER -> Text("code", <<RequestOf(s, cli[s].calls + 1)>>, cli[s].key)

\* The unit the client writes next in send_modules and in offload.
NextUnit(s) ==
  CASE cli[s].pc = "count" -> TheInt(IF cli[s].module THEN 1 ELSE 0)
    [] cli[s].pc = "file"  -> Text("module", ModuleOf(s), cli[s].key)
    [] cli[s].pc = "name"  -> Text("name", <<>>, Zero)
    [] OTHER -> Text("code", <<RequestOf(s, cli[s].calls + 1)>>, cli[s].key)

\* lua_send_module: the number of modules (0 or 1), then the file, its name.
SendModules(s) ==
  /\ cli[s].pc \in {"count", "file", "name"}
  /\ SendUp(s, NextUnit(s))
  /\ cli' = [cli EXCEPT ![s].pc =
               IF @ = "count" THEN IF cli[s].module THEN "file" ELSE "ready"
               ELSE IF @ = "file" THEN "name" ELSE "ready"]
  /\ UNCHANGED <<s2c, fin, rst, up, backlog>>

-----------------------------------------------------------------------------
(* A call of a wrapped function: offload.                                  *)

Call(s) ==
  /\ cli[s].pc = "ready"
  /\ cli[s].calls < MaxCalls
  /\ IF Sends(cli[s].mode)
     THEN /\ SendUp(s, NextUnit(s))
          /\ cli' = [cli EXCEPT ![s].pc = "response", ![s].calls = @ + 1]
     ELSE /\ cli' = [cli EXCEPT ![s].pc = "timers"]
          /\ UNCHANGED c2s
  /\ UNCHANGED <<s2c, fin, rst, up, backlog>>

\* A packet as the client reads it: with the wrong key the text is garbage.
View(packet, key) ==
  [what |-> packet.what, out |-> IF packet.key = key THEN packet.out ELSE <<>>]

\* lrecv_response, decrypted in mode 1: whatever packet comes next is the result.
RecvResponse(s) ==
  /\ cli[s].pc = "response"
  /\ \/ /\ ArrivedDown(s, {"pkt"})
        /\ cli' = [cli EXCEPT ![s].pc = "timers",
                     ![s].got = Append(@, View(Head(s2c[s]), cli[s].key))]
        /\ TakeDown(s)
     \/ /\ EofDown(s)
        /\ cli' = [cli EXCEPT ![s].pc = "timers",
                     ![s].got = Append(@, [what |-> "eof", out |-> <<>>])]
        /\ UNCHANGED s2c
  /\ UNCHANGED <<c2s, fin, rst, up, backlog>>

\* The second lrecv_response of offload, and the table of timers it fills.  An
\* unknown mode has no tag: table.insert raises an error and the client ends.
RecvTimers(s) ==
  /\ cli[s].pc = "timers"
  /\ \/ ArrivedDown(s, {"pkt"}) /\ TakeDown(s)
     \/ EofDown(s) /\ UNCHANGED s2c
  /\ cli' = [cli EXCEPT ![s].pc = IF Sends(cli[s].mode) THEN "ready" ELSE "closed"]
  /\ fin' = IF Sends(cli[s].mode) THEN fin ELSE fin \union {s}
  /\ UNCHANGED <<c2s, rst, up, backlog>>

Leave(s) ==
  /\ cli' = [cli EXCEPT ![s].pc = "closed"]
  /\ fin' = fin \union {s}
  /\ UNCHANGED <<s2c, rst, up, backlog>>

\* close_worker: shutdown and close, between calls.
Close(s) ==
  /\ cli[s].pc = "ready"
  /\ Leave(s)
  /\ UNCHANGED c2s

-----------------------------------------------------------------------------
(* The end of a client that does not reach close_worker.                   *)

\* The server is gone: connect fails and exits, a read returns ECONNRESET and
\* exits, a write raises SIGPIPE, or decrypt has nothing to open.
Fail(s) ==
  /\ ~up
  /\ cli[s].pc # "closed"
  /\ Leave(s)
  /\ UNCHANGED c2s

\* The client process dies between two units, or inside a packet.
Crash(s) ==
  /\ Crashes
  /\ cli[s].pc \notin {"idle", "closed"}
  /\ Leave(s)
  /\ \/ UNCHANGED c2s
     \/ /\ \/ cli[s].pc \in {"file", "name"}
           \/ cli[s].pc = "ready" /\ cli[s].calls < MaxCalls /\ Sends(cli[s].mode)
        /\ SendUp(s, [NextUnit(s) EXCEPT !.cut = TRUE])

\* It dies in lua_connect, connected and the mode not sent.
CrashConnecting(s) ==
  /\ Crashes
  /\ up
  /\ cli[s].pc = "idle"
  /\ Len(backlog) <= Backlog
  /\ backlog' = Append(backlog, s)
  /\ cli' = [cli EXCEPT ![s].pc = "closed"]
  /\ fin' = fin \union {s}
  /\ UNCHANGED <<c2s, s2c, rst, up>>

ClientStep(s) ==
  \/ Connect(s)
  \/ SendPublicKey(s)
  \/ RecvServerKey(s)
  \/ RecvHalf(s)
  \/ SendModules(s)
  \/ Call(s)
  \/ RecvResponse(s)
  \/ RecvTimers(s)
  \/ Close(s)
  \/ Fail(s)
=============================================================================
