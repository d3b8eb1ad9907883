------------------------------- MODULE Server -------------------------------
(***************************************************************************)
(* The server process: App.cpp's main loop, one session at a time, and the *)
(* enclaves it creates.  Return values are ignored by the build's flags    *)
(* (every check is under DEBUG), so an error continues with whatever the   *)
(* variables hold.                                                         *)
(***************************************************************************)
EXTENDS Enclave

CONSTANTS Eids,       \* enclave ids
          LuaErrors   \* whether the requested code may raise a Lua error

ASSUME LuaErrorsAssumption == LuaErrors \in BOOLEAN

VARIABLES pc,               \* where the server is
          cur,              \* the session of new_socket
          encryption_mode,  \* main's local: survives from session to session
          code_len,         \* spawn_*'s local: "unset" until a recv_num fills it
          unique_eid,       \* the enclave the host's ecalls name
          live,             \* the enclaves created and not destroyed
          enclave,          \* their state
          disk,             \* code.lua and the uploaded module file
          fresh,            \* the number of keys generated so far
          ran               \* history: the requests executed, in order

host == <<pc, cur, encryption_mode, code_len, unique_eid>>
sgx  == <<live, enclave, fresh>>
server == <<host, sgx, disk, ran>>

ServerPc == {"accept", "mode", "key", "count", "module", "code", "exec",
             "timers", "spin", "dead"}

ServerInit ==
  /\ pc = "accept"
  /\ cur \in Sessions
  /\ encryption_mode = 0
  /\ code_len = "unset"
  /\ unique_eid \in Eids
  /\ live = {}
  /\ enclave = [e \in Eids |-> Loaded]
  /\ disk = [code |-> Empty, module |-> Empty]
  /\ fresh = 0
  /\ ran = <<>>

ServerTypeOK ==
  /\ pc \in ServerPc
  /\ cur \in Sessions
  /\ encryption_mode \in Nat
  /\ code_len \in {"unset", "set"}
  /\ unique_eid \in Eids
  /\ live \subseteq Eids
  /\ enclave \in [Eids -> EnclaveState]
  /\ disk \in [code : File, module : File]
  /\ fresh \in Nat
  /\ ran \in Seq(Request)

Local == encryption_mode = 2   \* the local_mode argument of spawn_lua_enclave

\* l_setup_enclave: create, then ecall_init; the new id goes to unique_eid.
SetupEnclave(e, globals) ==
  /\ e \in Eids \ live
  /\ live' = live \union {e}
  /\ unique_eid' = e
  /\ enclave' = [enclave EXCEPT ![e] = globals]

\* Mutant: the enclave is not destroyed once it has crashed.
DestroyEnclaveHealthy ==
  live' = IF enclave[unique_eid].crashed THEN live ELSE live \ {unique_eid}

DestroyEnclave == live' = live \ {unique_eid}

\* The process ends: exit, abort, a segmentation fault or SIGPIPE.
Die ==
  /\ up' = FALSE
  /\ pc' = "dead"
  /\ UNCHANGED <<c2s, s2c, fin, rst, backlog, cur, encryption_mode, code_len,
                 unique_eid, sgx, disk, ran>>

\* Writing to a socket whose peer has closed raises SIGPIPE, or returns -1 and
\* ocall_send_packet exits; until the reset arrives it is swallowed.
DieWriting == cur \in fin /\ Die

-----------------------------------------------------------------------------
(* Accepting a session and setting it up.                                  *)

Accept ==
  /\ pc = "accept"
  /\ backlog # <<>>
  /\ cur' = Head(backlog)
  /\ backlog' = Tail(backlog)
  /\ pc' = "mode"
  /\ UNCHANGED <<c2s, s2c, fin, rst, up, encryption_mode, code_len, unique_eid, sgx,
                 disk, ran>>

\* main's dispatch; mode 1 creates its enclave, whose key pair comes first.
StartSession(mode) ==
  /\ encryption_mode' = mode
  /\ code_len' = "unset"
  /\ IF mode = 1
     THEN /\ \E e \in Eids :
               SetupEnclave(e, EcallGenPkeys(EcallInit(Loaded), fresh + 1))
          /\ fresh' = fresh + 1
          /\ pc' = "key"
     ELSE /\ pc' = "count"
          /\ UNCHANGED <<unique_eid, sgx>>

\* recv_num of the mode; at end of file the last session's mode stays.
RecvMode ==
  /\ pc = "mode"
  /\ \/ /\ ArrivedUp(cur, "num")
        /\ Head(c2s[cur]).v \in {0, 1, 2}
        /\ StartSession(Head(c2s[cur]).v)
        /\ TakeUp(cur)
     \/ /\ EofUp(cur)
        /\ StartSession(encryption_mode)
        /\ UNCHANGED c2s
  /\ UNCHANGED <<s2c, fin, rst, up, backlog, cur, disk, ran>>

\* No branch of main takes an unknown mode: main returns.
UnknownMode ==
  /\ pc = "mode"
  /\ ArrivedUp(cur, "num")
  /\ Head(c2s[cur]).v \notin {0, 1, 2}
  /\ Die

\* Mutant: the symmetric key goes first.
HandshakeUnitsSwapped(e) == KeyHalves(e) \o <<TheServerKey(e.spk)>>

\* What the client receives: the enclave's public key, then the symmetric key.
HandshakeUnits(e) == <<TheServerKey(e.spk)>> \o KeyHalves(e)

\* l_setup_client_handshake after ecall_gen_pkeys: one read for the client's
\* key (zeros at end of file), then the server's key and the two halves.
Handshake ==
  /\ pc = "key"
  /\ \/ ArrivedUp(cur, "cpk") /\ TakeUp(cur)
     \/ EofUp(cur) /\ UNCHANGED c2s
  /\ LET cpk == IF c2s[cur] = <<>> THEN NoSession ELSE Head(c2s[cur]).v
         e   == EcallSendAesKey(
                  EcallRegisterClient(enclave[unique_eid], cpk), fresh + 1)
     IN  /\ enclave' = [enclave EXCEPT ![unique_eid] = e]
         /\ SendDown(cur, HandshakeUnits(e))
  /\ fresh' = fresh + 1
  /\ pc' = "count"
  /\ UNCHANGED <<fin, rst, up, backlog, cur, encryption_mode, code_len, unique_eid,
                 live, disk, ran>>

\* Mutant: recv_num waits for the whole int, at end of file too.
RecvCountWaits ==
  /\ pc = "count"
  /\ ArrivedUp(cur, "num")
  /\ pc' = IF Head(c2s[cur]).v = 0 THEN "code" ELSE "module"
  /\ TakeUp(cur)
  /\ UNCHANGED <<s2c, fin, rst, up, backlog, cur, encryption_mode, code_len,
                 unique_eid, sgx, disk, ran>>

\* receive_modules, the count: 0 also when nothing could be read.
RecvCount ==
  /\ pc = "count"
  /\ \/ /\ ArrivedUp(cur, "num")
        /\ pc' = IF Head(c2s[cur]).v = 0 THEN "code" ELSE "module"
        /\ TakeUp(cur)
        /\ UNCHANGED rst
     \/ /\ EofUp(cur)
        /\ pc' = "code"
        /\ UNCHANGED c2s
        /\ UNCHANGED rst \/ (ResetUp(cur) /\ rst' = rst \union {cur})
  /\ UNCHANGED <<s2c, fin, up, backlog, cur, encryption_mode, code_len,
                 unique_eid, sgx, disk, ran>>

\* The rest of receive_modules: the file and its name, then the file is written.
RecvModule ==
  /\ pc = "module"
  /\ Len(c2s[cur]) >= 2
  /\ \A i \in 1..2 : c2s[cur][i].t = "pkt" /\ ~c2s[cur][i].cut
  /\ disk' = [disk EXCEPT !.module = [out |-> c2s[cur][1].out,
                                      key |-> c2s[cur][1].key]]
  /\ c2s' = [c2s EXCEPT ![cur] = Tail(Tail(@))]
  /\ pc' = "code"
  /\ UNCHANGED <<s2c, fin, rst, up, backlog, cur, encryption_mode, code_len,
                 unique_eid, sgx, ran>>

\* Mutant: a short read is taken for the end of the connection.
ModuleMissingHasty ==
  /\ pc = "module"
  /\ Len(c2s[cur]) < 2
  /\ \A i \in 1..Len(c2s[cur]) : ~c2s[cur][i].cut
  /\ Die

\* End of file before the file or its name: fopen gives NULL, fclose(NULL).
ModuleMissing ==
  /\ pc = "module"
  /\ cur \in fin
  /\ Len(c2s[cur]) < 2
  /\ \A i \in 1..Len(c2s[cur]) : ~c2s[cur][i].cut
  /\ Die

-----------------------------------------------------------------------------
(* The request loop of spawn_lua_enclave and spawn_lua_og.                 *)

\* recv_data at end of file: read returns 0 for ever, in the middle of a packet
\* or, after a reset, of the length recv_num left from the last one.
Spin ==
  /\ \/ /\ pc = "module"
        /\ \E i \in 1..Len(c2s[cur]) : c2s[cur][i].t = "pkt" /\ c2s[cur][i].cut
        /\ UNCHANGED rst
     \/ /\ pc = "code"
        /\ ArrivedUp(cur, "pkt")
        /\ Head(c2s[cur]).cut
        /\ UNCHANGED rst
     \/ /\ pc = "code"
        /\ ResetUp(cur)
        /\ rst' = rst \union {cur}
  /\ pc' = "spin"
  /\ UNCHANGED <<c2s, s2c, fin, up, backlog, cur, encryption_mode, code_len,
                 unique_eid, sgx, disk, ran>>

\* Write code.lua; the local mode creates the request's own enclave.
StartRequest(code) ==
  /\ disk' = [disk EXCEPT !.code = code]
  /\ IF Local THEN \E e \in Eids : SetupEnclave(e, EcallInit(Loaded))
              ELSE UNCHANGED <<live, enclave, unique_eid>>
  /\ pc' = "exec"
  /\ UNCHANGED <<s2c, fin, up, backlog, cur, encryption_mode, fresh, ran>>

\* Mutants: a truncated packet is executed, the packet is left in the stream, or
\* code.lua is executed before the received code is written to it.
RecvCodeTruncated ==
  /\ pc = "code"
  /\ ArrivedUp(cur, "pkt")
  /\ StartRequest([out |-> Head(c2s[cur]).out, key |-> Head(c2s[cur]).key])
  /\ code_len' = "set"
  /\ TakeUp(cur)
  /\ UNCHANGED rst
RecvCodeAgain ==
  /\ pc = "code"
  /\ ArrivedUp(cur, "pkt")
  /\ ~Head(c2s[cur]).cut
  /\ StartRequest([out |-> Head(c2s[cur]).out, key |-> Head(c2s[cur]).key])
  /\ code_len' = "set"
  /\ UNCHANGED <<c2s, rst>>
RecvCodeStale ==
  /\ pc = "code"
  /\ ArrivedUp(cur, "pkt")
  /\ ~Head(c2s[cur]).cut
  /\ StartRequest(IF disk.code = Empty
                  THEN [out |-> Head(c2s[cur]).out, key |-> Head(c2s[cur]).key]
                  ELSE disk.code)
  /\ code_len' = "set"
  /\ TakeUp(cur)
  /\ UNCHANGED rst

RecvCode ==
  /\ pc = "code"
  /\ ArrivedUp(cur, "pkt")
  /\ ~Head(c2s[cur]).cut
  /\ StartRequest([out |-> Head(c2s[cur]).out, key |-> Head(c2s[cur]).key])
  /\ code_len' = "set"
  /\ TakeUp(cur)
  /\ UNCHANGED rst

\* The connection was reset before the first request: recv_num fails and the
\* length is uninitialised.  Zero: the empty buffer is executed.  -1: nothing is
\* read and writing it out of bounds is fatal.  Below: calloc fails and NULL ends
\* the session (EndSession).  Above zero: recv_data never returns (Spin).
UnsetLength ==
  /\ pc = "code"
  /\ ResetUp(cur)
  /\ code_len = "unset"
  /\ \/ /\ StartRequest(Empty)
        /\ rst' = rst \union {cur}
        /\ UNCHANGED <<c2s, code_len>>
     \/ Die

\* recv_file returns NULL: close the socket and, in mode 1, the enclave.
EndSession ==
  /\ pc = "code"
  /\ EofUp(cur)
  /\ IF encryption_mode = 1 THEN DestroyEnclave ELSE UNCHANGED live
  /\ pc' = "accept"
  /\ UNCHANGED <<wire, cur, encryption_mode, code_len, unique_eid, enclave, fresh,
                 disk, ran>>

\* A finished request: its output goes to the client.
Deliver(e, packet) ==
  /\ ran' = Append(ran, Head(disk.code.out))
  /\ SendDown(cur, <<packet>>)
  /\ enclave' = [enclave EXCEPT ![unique_eid] = e]
  /\ pc' = "timers"
  /\ UNCHANGED <<c2s, fin, rst, up, backlog, cur, encryption_mode, code_len, unique_eid,
                 live, fresh, disk>>

\* ecall_execute in modes 1 and 2.
Started == EcallExecuteStart(enclave[unique_eid], Local)
Usable  == unique_eid \in live /\ ~Started.crashed

Execute ==
  /\ pc = "exec"
  /\ encryption_mode # 0
  /\ Usable
  /\ Runs(Started, disk.code)
  /\ LET done == Main(Started, disk.code, disk.module)
     IN  Deliver(EcallExecuteEnd(done), ResultPacket(done, Local))

\* main() aborts the enclave, or the enclave was aborted before: ecall_execute
\* returns an error nobody looks at, and no result packet is sent.
ExecuteFails ==
  /\ pc = "exec"
  /\ encryption_mode # 0
  /\ LuaErrors \/ ~Usable \/ ~Runs(Started, disk.code)
  /\ enclave' = [enclave EXCEPT ![unique_eid] = [Started EXCEPT !.crashed = TRUE]]
  /\ pc' = "timers"
  /\ UNCHANGED <<wire, cur, encryption_mode, code_len, unique_eid, live, fresh,
                 disk, ran>>

\* Mode 0: lua_main in a fresh Lua state of the host, its output in a file.
HostVM == Bootstrap(Loaded)

ExecuteOnHost ==
  /\ pc = "exec"
  /\ encryption_mode = 0
  /\ Runs(HostVM, disk.code)
  /\ Deliver(enclave[unique_eid],
             ResultPacket(Main(HostVM, disk.code, disk.module), TRUE))

\* lua_main aborts the server process.
HostError ==
  /\ pc = "exec"
  /\ encryption_mode = 0
  /\ LuaErrors \/ ~Runs(HostVM, disk.code)
  /\ Die

\* The client is gone: its keys, result or timers meet a closed connection.
KeysLost   == pc = "key" /\ DieWriting
ResultLost == pc = "exec" /\ DieWriting
TimersLost == pc = "timers" /\ DieWriting

\* Mutant: no timers are sent.
SendTimersNot ==
  /\ pc = "timers"
  /\ IF Local THEN DestroyEnclave ELSE UNCHANGED live
  /\ pc' = "code"
  /\ UNCHANGED <<wire, cur, encryption_mode, code_len, unique_eid, enclave, fresh,
                 disk, ran>>

\* The local mode destroys the request's enclave; the timers follow the result.
SendTimers ==
  /\ pc = "timers"
  /\ IF Local THEN DestroyEnclave ELSE UNCHANGED live
  /\ SendDown(cur, <<Text("timers", <<>>, Zero)>>)
  /\ pc' = "code"
  /\ UNCHANGED <<c2s, fin, rst, up, backlog, cur, encryption_mode, code_len, unique_eid,
                 enclave, fresh, disk, ran>>

ServerStep ==
  \/ Accept
  \/ RecvMode
  \/ UnknownMode
  \/ Handshake
  \/ KeysLost
  \/ RecvCount
  \/ RecvModule
  \/ ModuleMissing
  \/ Spin
  \/ RecvCode
  \/ UnsetLength
  \/ EndSession
  \/ Execute
  \/ ExecuteFails
  \/ ExecuteOnHost
  \/ HostError
  \/ ResultLost
  \/ TimersLost
  \/ SendTimers
=============================================================================
