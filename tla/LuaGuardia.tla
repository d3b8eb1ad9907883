----------------------------- MODULE LuaGuardia -----------------------------
(***************************************************************************)
(* Clients that offload Lua calls, the server process that executes them   *)
(* and its enclaves, composed.                                             *)
(***************************************************************************)
EXTENDS Client, Server, FiniteSets

vars == <<wire, cli, server>>

Init == WireInit /\ ClientInit /\ ServerInit

Step(s)    == ClientStep(s) /\ UNCHANGED server
Kill(s)    == (Crash(s) \/ CrashConnecting(s)) /\ UNCHANGED server
ServerNext == ServerStep /\ UNCHANGED cli

\* Every client is done and the server waits in accept, or is gone.
Terminated ==
  /\ fin = Sessions
  /\ pc = "dead" \/ (pc = "accept" /\ backlog = <<>>)
  /\ UNCHANGED vars

Next ==
  \/ \E s \in Sessions : Step(s) \/ Kill(s)
  \/ ServerNext
  \/ Terminated

(***************************************************************************)
(* Fairness: each process is scheduled by the operating system, so a       *)
(* client or a server that can take its next step eventually takes one.    *)
(* Nothing makes a client crash.                                           *)
(***************************************************************************)
Spec == Init /\ [][Next]_vars
FairSpec ==
  /\ Spec
  /\ WF_vars(ServerNext)
  /\ \A s \in Sessions : WF_vars(Step(s))

-----------------------------------------------------------------------------
\* Every variable stays in its type.
TypeOK == WireTypeOK /\ ClientTypeOK /\ ServerTypeOK

\* What call n of session s, whose client is at c, must return: its own output,
\* over its own module file.  A session that uploaded none may find another's.
Own(s, c, n) ==
  [what : {"result"},
   out  : {<<[s |-> s, n |-> n, mod |-> o]>> :
             o \in IF c.module THEN {s} ELSE Sessions \union {NoSession}}]

Lost == [what |-> "eof", out |-> <<>>]

\* What the client reads for a request that raised an error: its timers.
TimersOnly == [what |-> "timers", out |-> <<>>]

\* Every call returns the output of that very call, readable with the session's
\* own key and, if it uploaded one, over its own module file (App.cpp:164).  Only
\* a dead server makes it return nothing; and a request that raises a Lua error
\* hands the client the timers, in a call that does not return any more.
ResponseIsOwn ==
  \A s \in Sessions : \A n \in 1..Len(cli[s].got) :
    \/ cli[s].got[n] \in Own(s, cli[s], n)
    \/ ~up /\ cli[s].got[n] = Lost
    \/ /\ LuaErrors /\ cli[s].got[n] = TimersOnly
       /\ n = cli[s].calls /\ (cli[s].pc \in {"timers", "closed"} \/ ~up)

\* The module file of a session stays on the disk when the session has ended, and
\* later calls find it (receive_modules, App.cpp:156-161).  Its text is shown to
\* another session only if neither has a key: text uploaded under a key is read by
\* no other session, and a session with a key reads no other's.
Plain == {s \in Sessions : cli[s].pc # "idle" /\ cli[s].mode # 1}
Readable(s) == {s, NoSession} \union (IF s \in Plain THEN Plain ELSE {})
Outputs(s)  == [s : Sessions, n : Nat, mod : Readable(s)]
KeyedTextStaysOwn ==
  \A s \in Sessions : \A n \in 1..Len(cli[s].got) : cli[s].got[n].out \in Seq(Outputs(s))

\* What a call returns is a result packet, unless the server is gone ("sends
\* back the results", App.cpp:164).
ResultsSentBack ==
  \A s \in Sessions : \A n \in 1..Len(cli[s].got) :
    cli[s].got[n].what \in {"result", "eof"}

\* The two ends agree on where in the stream they are: a unit that waits is of
\* the kind its reader's next read expects (App.cpp, client.c: no unit carries
\* its kind).
InSync ==
  /\ \A s \in Sessions : s2c[s] # <<>> /\ s \notin fin =>
       LET m == Head(s2c[s])
       IN  CASE cli[s].pc = "spk" -> m.t = "spk"
             [] cli[s].pc \in {"half1", "half2"} -> m.t = "box"
             [] cli[s].pc = "response" -> m.t = "pkt" /\ m.what = "result"
             [] cli[s].pc = "timers" -> m.t = "pkt" /\ m.what = "timers"
             [] OTHER -> FALSE
  /\ c2s[cur] # <<>> =>
       LET m == Head(c2s[cur])
       IN  CASE pc \in {"mode", "count"} -> m.t = "num"
             [] pc = "key" -> m.t = "cpk"
             [] pc = "module" -> m.t = "pkt" /\ m.what = "module"
             [] pc = "code" -> m.t = "pkt" /\ m.what = "code"
             [] OTHER -> TRUE

\* In mode 1 the session and the enclave hold the same key once the client has
\* left the handshake, and no two sessions hold the same one.
KeysAgree ==
  \A s \in Sessions : up /\ cli[s].mode = 1 /\ cli[s].pc \in {"count", "file",
                              "name", "ready", "response", "timers"} =>
    /\ cur = s /\ cli[s].key # Zero
    /\ cli[s].key = enclave[unique_eid].key
    /\ \A r \in Sessions \ {s} : cli[r].key # cli[s].key

\* Enclaves are neither leaked nor used after their end: none is live while the
\* server is between sessions or serves mode 0, one exactly while a mode 1
\* session or a mode 2 request is served, and unique_eid names it.
EnclaveServes ==
  \/ encryption_mode = 1 /\ pc \notin {"accept", "mode"}
  \/ encryption_mode = 2 /\ pc \in {"exec", "timers"}
OneEnclave == up => live = IF EnclaveServes THEN {unique_eid} ELSE {}

\* While its client is there and asked for a known mode, the server stays up and
\* its enclave is not aborted, unless a request that was sent and did not finish
\* raised an error: each finds an open Lua state, code the VM can read and a request
\* in it (ecall_execute, main of lua.cpp, lua_main).
Unfinished(s) == cli[s].calls > Cardinality({i \in 1..Len(ran) : ran[i].s = s})
NoSpuriousAbort ==
  cur \notin fin /\ Sends(cli[cur].mode) /\ ~(LuaErrors /\ Unfinished(cur)) =>
    up /\ \A e \in live : ~enclave[e].crashed

\* The server never waits for a client that waits for the server: on neither
\* side of the connection is anything on its way (the request loop and offload).
NoMutualWait ==
  ~( /\ up /\ cur \notin fin /\ pc \in {"mode", "key", "count", "module", "code"}
     /\ c2s[cur] = <<>> /\ s2c[cur] = <<>>
     /\ cli[cur].pc \in {"spk", "half1", "half2", "response", "timers"} )

\* A request is executed once, after every earlier call of its session, and for
\* the session being served.
RanInOrder ==
  [][ran' # ran =>
       LET r == ran'[Len(ran')]
       IN  /\ r.s = cur
           /\ r.n = 1 + Cardinality({i \in 1..Len(ran) : ran[i].s = r.s})]_ran

\* Every session that connects is served to its end.
SessionsEnd == \A s \in Sessions : (s \in {backlog[i] : i \in 1..Len(backlog)}) ~> (s \in fin)

\* A call that was sent is answered, or its session ends.
CallsReturn == \A s \in Sessions : cli[s].pc = "response" ~> cli[s].pc \in {"ready", "closed"}

\* Client and server wait for each other: the client has read the timers of a
\* request without a result as its result, the server waits for the next request.
WaitAfterError ==
  pc = "code" /\ c2s[cur] = <<>> /\ cli[cur].pc = "timers" /\ s2c[cur] = <<>>

\* Whatever clients do, the server comes back to accept unless it ended, spins in
\* recv_data, or served a request that raised an error: those are the only ways a
\* client stops it (receive_modules, recv_data, execute_code_thread).
ServerReturns ==
  \/ []<>(pc = "accept")
  \/ <>[](pc \in {"spin", "dead"})
  \/ LuaErrors /\ <>[]WaitAfterError

-----------------------------------------------------------------------------
(* The system implements RemoteCalls: a session's call is made when its code *)
(* is sent, executed when the VM has run it, and returned when the client    *)
(* has read a packet for it, unless that holds the timers: then the call     *)
(* waits for ever for others.                                                *)

\* What a call returned: the call whose output it is, Nothing, or the reply as
\* the client sees it when it is neither.
Replies(s) ==
  LET got == cli[s].got
  IN  IF got # <<>> /\ got[Len(got)] = TimersOnly THEN SubSeq(got, 1, Len(got) - 1) ELSE got
Returned(s, n) ==
  LET reply == Replies(s)[n]
  IN  IF reply = Lost THEN <<>>
      ELSE IF reply \in Own(s, cli[s], n) THEN <<s, n>>
      ELSE <<reply>>

Calls == INSTANCE RemoteCalls WITH
  calls    <- [s \in Sessions |-> cli[s].calls],
  ran      <- [i \in 1..Len(ran) |-> <<ran[i].s, ran[i].n>>],
  returned <- [s \in Sessions |-> [n \in 1..Len(Replies(s)) |-> Returned(s, n)]],
  stopped  <- ~up

\* Every behaviour of clients, server and enclaves is one of RemoteCalls.
RemoteCallsSpec == Calls!Spec
=============================================================================
