------------------------------ MODULE Protocol ------------------------------
(***************************************************************************)
(* Where the two ends of a connection are in the protocol, for every set   *)
(* of sessions, modes, enclave ids, number of calls and accept queue       *)
(* length, while clients die anywhere and requests raise Lua errors.       *)
(*                                                                         *)
(* The units a client writes have numbers, from 0 for its mode to CodeAt   *)
(* for the code of its present call.  The invariant says that what is on   *)
(* its way to the server are the units from the one the server reads next  *)
(* to the one the client has written last, and what is on its way back is  *)
(* what the client reads next.                                             *)
(***************************************************************************)
EXTENDS LuaGuardia

\* The numbers of the module count and of the code, for a client's record c.
CountAt(c) == IF c.mode = 1 THEN 2 ELSE 1
CodeAt(c)  == CountAt(c) + (IF c.module THEN 3 ELSE 1)

CallOf(s, c) == RequestOf(s, c.calls)
Code(s, c) == Text("code", <<CallOf(s, c)>>, c.key)

Unit(s, c, i) ==
  IF i = 0 THEN TheInt(c.mode)
  ELSE IF i = CountAt(c) THEN TheInt(IF c.module THEN 1 ELSE 0)
  ELSE IF i = CodeAt(c) THEN Code(s, c)
  ELSE IF i = 1 THEN TheClientKey(s)
  ELSE IF i = CountAt(c) + 1 THEN Text("module", ModuleOf(s), c.key)
  ELSE Text("name", <<>>, Zero)

Early   == {"waits", "mode"}
Setup   == {"waits", "mode", "key", "count", "module"}
Serving == {"code", "exec", "timers"}

\* How many units the client has written when it is at c.pc.
Written(c) ==
  IF c.pc = "idle" THEN 0
  ELSE IF c.pc = "handshake" THEN 1
  ELSE IF c.pc \in {"spk", "half1", "half2"} THEN 2
  ELSE IF c.pc = "count" THEN CountAt(c)
  ELSE IF c.pc = "file" THEN CountAt(c) + 1
  ELSE IF c.pc = "name" THEN CountAt(c) + 2
  ELSE IF c.pc = "response" THEN CodeAt(c) + 1
  ELSE CodeAt(c)

\* The unit the server reads next when it is at p.
Reading(c, p) ==
  IF p \in Early THEN 0
  ELSE IF p = "key" THEN 1
  ELSE IF p = "count" THEN CountAt(c)
  ELSE IF p = "module" THEN CountAt(c) + 1
  ELSE CodeAt(c)

\* What is on its way up, u, are the units from number i on; when the client is
\* gone the last one may be a packet that is cut.
CutUnit(m)     == m.t = "pkt" /\ m.cut
CutOf(m, unit) == CutUnit(m) /\ unit.t = "pkt" /\ m.what = unit.what
Line(s, c, u, i, gone) ==
  \A j \in 1..Len(u) :
    \/ u[j] = Unit(s, c, i + j - 1)
    \/ gone /\ j = Len(u) /\ CutOf(u[j], Unit(s, c, i + j - 1))

(***************************************************************************)
(* The way up, for any session: c is the client's record, p where the      *)
(* server is with it, k the number of its requests executed, em the        *)
(* server's mode, files the disk and gone the clients that are not there.  *)
(***************************************************************************)
UpFits(s, c, u, p, k, em, files, gone) ==
  /\ u # <<>> /\ p # "spin" =>
       /\ p \notin {"exec", "timers"}
       /\ Line(s, c, u, Reading(c, p), s \in gone)
       /\ Reading(c, p) + Len(u) <= CodeAt(c) + 1
       /\ p \notin Early => em = c.mode
       /\ p = "key" => c.mode = 1
       /\ p = "module" => c.module
       /\ Reading(c, p) + Len(u) = CodeAt(c) + 1 /\ ~CutUnit(u[Len(u)]) => c.calls = k + 1
  /\ p = "exec" => \/ files.code.out = <<>>
                   \/ files.code.out = <<CallOf(s, c)>> /\ c.calls = k + 1

-----------------------------------------------------------------------------
(* The rest is about a client that is there: its record c, the streams u   *)
(* and d, the server at p, the enclave e.                                  *)

\* A request of this call raised an error.
Failed(c, k) == LuaErrors /\ k + 1 = c.calls

\* The handshake of mode 1: who has which key.
Half(s, e) == [t |-> "box", v |-> e.key, cpk |-> s, spk |-> e.spk]
Shakes(s, c, d, p, e) ==
  /\ p \in Early \union {"key"} => c.pc \in {"handshake", "spk"} /\ d = <<>>
  /\ p \in {"count", "module"} =>
       \/ c.pc = "spk" /\ d = <<TheServerKey(e.spk), Half(s, e), Half(s, e)>>
       \/ c.pc = "half1" /\ c.spk = e.spk /\ d = <<Half(s, e), Half(s, e)>>
       \/ c.pc = "half2" /\ c.spk = e.spk /\ c.half = e.key /\ d = <<Half(s, e)>>
       \/ /\ c.pc \in {"count", "file", "name", "ready", "response"}
          /\ c.key = e.key /\ d = <<>>
  /\ p \in Serving => c.key = e.key

\* The enclave can run the next request, unless one has raised an error.
EnclaveFits(s, c, p, k, em, e) ==
  /\ em = 1 /\ p \notin Early =>
       /\ e.open /\ e.response = <<>>
       /\ p # "key" => e.cpk = s /\ e.key # Zero
       /\ e.crashed => /\ p \in {"timers", "code"} /\ c.pc \in {"response", "timers"}
                       /\ Failed(c, k)
  /\ em = 2 => /\ p = "exec" => e = Bootstrap(Loaded)
               /\ p = "timers" /\ e.crashed => Failed(c, k)

\* The packets a call may be answered with.
Results(s, c) == {Text("result", reply.out, c.key) : reply \in Own(s, c, c.calls)}
Timers == Text("timers", <<>>, Zero)

\* The places of the two ends in a call.
Turn(s, c, u, d, p, k) ==
  \/ c.pc = "ready" /\ k = c.calls /\ p = "code" /\ u = <<>> /\ d = <<>>
  \/ c.pc = "response" /\ c.calls = k + 1 /\ p = "code" /\ u = <<Code(s, c)>> /\ d = <<>>
  \/ c.pc = "response" /\ c.calls = k + 1 /\ p = "exec" /\ u = <<>> /\ d = <<>>
  \/ c.pc = "response" /\ c.calls = k /\ p = "timers" /\ u = <<>> /\ d \in {<<m>> : m \in Results(s, c)}
  \/ c.pc = "response" /\ c.calls = k /\ p = "code" /\ u = <<>>
     /\ d \in {<<m, Timers>> : m \in Results(s, c)}
  \/ c.pc = "response" /\ Failed(c, k) /\ p = "timers" /\ u = <<>> /\ d = <<>>
  \/ c.pc = "response" /\ Failed(c, k) /\ p = "code" /\ u = <<>> /\ d = <<Timers>>
  \/ c.pc = "timers" /\ c.calls = k /\ p = "timers" /\ u = <<>> /\ d = <<>>
  \/ c.pc = "timers" /\ c.calls = k /\ p = "code" /\ u = <<>> /\ d = <<Timers>>
  \/ c.pc = "timers" /\ Failed(c, k) /\ p = "code" /\ u = <<>> /\ d = <<>>

\* What the calls have returned.
GotFits(s, c, k) ==
  /\ Sends(c.mode) => IF c.pc = "response" THEN Len(c.got) + 1 = c.calls
                                           ELSE Len(c.got) = c.calls
  /\ \A n \in 1..Len(c.got) :
       \/ c.got[n] \in Own(s, c, n)
       \/ c.pc = "timers" /\ Failed(c, k) /\ n = c.calls /\ c.got[n] = TimersOnly

\* Before the first request.
Starts(c, u, d, p, k) ==
  /\ Reading(c, p) + Len(u) = Written(c)
  /\ k = 0
  /\ c.calls = (IF c.pc = "response" THEN 1 ELSE 0)
  /\ c.pc = "timers" => ~Sends(c.mode)
  /\ c.pc \in {"file", "name"} => c.module
  /\ c.mode # 1 => d = <<>>
  /\ p = "module" => c.module

LiveFits(s, c, u, d, p, k, em, e, files) ==
  /\ c.pc # "closed" /\ p \notin {"spin", "dead"}
  /\ c.mode # 1 => c.key = Zero /\ c.pc \notin {"handshake", "spk", "half1", "half2"}
  /\ c.mode = 1 => c.pc # "idle" /\ Shakes(s, c, d, p, e)
  /\ p \notin Early => em = c.mode /\ Sends(c.mode)
  /\ p = "key" => c.mode = 1
  /\ c.pc = "idle" => p = "waits" /\ c.got = <<>>
  /\ p \in Setup => Starts(c, u, d, p, k)
  /\ p \in Serving =>
       /\ Turn(s, c, u, d, p, k)
       /\ c.module => files.module = [out |-> ModuleOf(s), key |-> c.key]
  /\ p = "exec" => files.code = [out |-> <<CallOf(s, c)>>, key |-> c.key]
  /\ GotFits(s, c, k)
  /\ EnclaveFits(s, c, p, k, em, e)
  /\ p = "code" /\ u # <<>> /\ em = 1 => ~e.crashed

Fits(s, c, u, d, p, k, em, e, files, gone) ==
  /\ UpFits(s, c, u, p, k, em, files, gone)
  /\ s \notin gone => LiveFits(s, c, u, d, p, k, em, e, files)

-----------------------------------------------------------------------------
\* The requests of s that were executed, and where the server is with it.
Done(s) == Cardinality({i \in 1..Len(ran) : ran[i].s = s})
Srv(s)  == IF s = cur /\ pc # "accept" THEN pc ELSE "waits"
Current == enclave[unique_eid]

SessionOK(s) == Fits(s, cli[s], c2s[s], s2c[s], Srv(s), Done(s), encryption_mode,
                     Current, disk, fin)

\* When the server has died, what a client that is there has read.
Bereft(s) ==
  s \notin fin =>
    /\ s2c[s] = <<>>
    /\ \A n \in 1..Len(cli[s].got) : cli[s].got[n] \in {Lost} \union Own(s, cli[s], n)

Queue ==
  \A i \in 1..Len(backlog) :
    /\ cli[backlog[i]].pc # "idle"
    /\ pc # "accept" => backlog[i] # cur
    /\ \A j \in 1..Len(backlog) : backlog[i] = backlog[j] => i = j

Ended == \A s \in Sessions : s \in fin <=> cli[s].pc = "closed"

Keys ==
  up => /\ \A s \in Sessions : cli[s].key <= fresh
        /\ encryption_mode = 1 /\ pc \notin {"accept", "mode", "key"} =>
             /\ Current.key <= fresh
             /\ \A s \in Sessions \ {cur} : cli[s].key # Current.key

Answered(s) ==
  \A n \in 1..Len(cli[s].got) :
    \/ cli[s].got[n] \in Own(s, cli[s], n)
    \/ ~up /\ cli[s].got[n] = Lost
    \/ /\ LuaErrors /\ cli[s].got[n] = TimersOnly
       /\ n = cli[s].calls /\ cli[s].pc \in {"timers", "closed"}

\* Why the server has died: its client is gone, or its mode unknown, or its
\* request raised an error.
Excused ==
  \/ cur \in fin
  \/ ~Sends(cli[cur].mode)
  \/ LuaErrors /\ Unfinished(cur)

\* The joint position of the two ends of every connection (App.cpp:130-206 against
\* lclient.lua and client.c): while the server is up each session is somewhere in
\* the protocol where streams, keys, files, enclave and replies fit; it is down only
\* for a reason, and then a client reads nothing more.
Protocol ==
  /\ up <=> pc # "dead"
  /\ ~up => Excused
  /\ Queue /\ Ended /\ Keys
  /\ up => \A s \in Sessions : SessionOK(s)
  /\ ~up => \A s \in Sessions : Bereft(s)
  /\ \A s \in Sessions : Answered(s)

\* The two ends agree on the calls: a client has one call at most that has not
\* returned, and has it exactly while it waits for a response; the requests of a
\* session that were executed are its first calls, each counted once; and what a
\* client holds as the output of a call was executed (offload against the request
\* loop of spawn_lua_enclave and spawn_lua_og).
CallsAccounted ==
  \A s \in Sessions :
    /\ cli[s].calls \in {Len(cli[s].got), Len(cli[s].got) + 1}
    /\ cli[s].pc # "closed" =>
         (cli[s].pc = "response" <=> cli[s].calls = Len(cli[s].got) + 1)
    /\ {ran[i].n : i \in {j \in 1..Len(ran) : ran[j].s = s}} = 1..Done(s)
    /\ \A n \in 1..Len(cli[s].got) : cli[s].got[n] \in Own(s, cli[s], n) => n <= Done(s)
=============================================================================
