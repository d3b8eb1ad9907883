------------------------------- MODULE FdTable -------------------------------
(***************************************************************************)
(* The server process's file descriptors over many sessions: what accept,  *)
(* the SGX driver, the enclave's loader (which never closes the files it   *)
(* loads) and the executed code open, what the executed code closes unless *)
(* its enclave is aborted, and what close_open_fds closes between sessions *)
(* and before every request of mode 2.                                     *)
(***************************************************************************)
EXTENDS Naturals, FiniteSets, FiniteSetsExt

CONSTANTS MaxFd,     \* bound: the highest descriptor
          MaxOpens   \* bound: files opened between two cleanups, boot's included

ASSUME FdAssumption ==
  /\ MaxFd \in Nat /\ MaxFd >= 4
  /\ MaxOpens \in Nat /\ MaxOpens >= 2   \* bootstrap.lua and one more

VARIABLES fds,     \* fds[n]: what descriptor n is open on
          mode,    \* of the session being served
          phase,   \* "accept", "code" (between requests) or "exec"
          conn,    \* new_socket
          opens,   \* files opened since the last cleanup
          crashed  \* the enclave was aborted

vars == <<fds, mode, phase, conn, opens, crashed>>

Fds  == 0..MaxFd
\* Regular files, which close_open_fds may close: those the executed code may still
\* close, and those nobody else will.
Files == {"data", "loaded"}
Welcome == 3                  \* welcome_socket

Init ==
  /\ fds = [n \in Fds |-> IF n < Welcome THEN "std"
                          ELSE IF n = Welcome THEN "socket" ELSE "free"]
  /\ mode = 0 /\ phase = "accept" /\ conn = Welcome /\ opens = 0
  /\ crashed = FALSE

\* open(2), accept(2): the lowest free descriptor.
Free(table) == {n \in Fds : table[n] = "free"}
Lowest(table) == Min(Free(table))
Opened(table, kind) == [table EXCEPT ![Lowest(table)] = kind]

Open(table) == {n \in Fds : table[n] # "free"}
Holds(table, kinds) == {n \in Fds : table[n] \in kinds}

\* count_open_fds: the entries of /proc/self/fd without ".", ".." and its own.
CountOpenFds(table) == Cardinality(Open(table))

\* Mutants: the loop stops one short, or does not look for sockets.
CloseOpenFdsShort(table, s) ==
  [n \in Fds |-> IF n > s /\ n < CountOpenFds(table) /\ table[n] \in Files
                 THEN "free" ELSE table[n]]
CloseOpenFdsAny(table, s) ==
  [n \in Fds |-> IF n > s /\ n <= CountOpenFds(table) /\ table[n] # "isgx"
                 THEN "free" ELSE table[n]]

\* close_open_fds: descriptors s+1 to count, sockets and the SGX device spared.
CloseOpenFds(table, s) ==
  [n \in Fds |-> IF n > s /\ n <= CountOpenFds(table) /\ table[n] \in Files
                 THEN "free" ELSE table[n]]

\* Files of a Lua state that is gone.
Orphaned(table) == [n \in Fds |-> IF table[n] = "data" THEN "loaded" ELSE table[n]]

\* l_setup_enclave: the device, opened once, and bootstrap.lua, loaded.  The
\* libraries that it requires, and a second boot, are LoadFile's.
SetupEnclave(table) ==
  Opened(IF Holds(table, {"isgx"}) = {} THEN Opened(table, "isgx") ELSE table, "loaded")

Accept(m) ==
  /\ phase = "accept"
  /\ mode' = m
  /\ conn' = Lowest(fds)
  /\ LET table == Opened(fds, "socket")
     IN  fds' = IF m = 1 THEN SetupEnclave(table) ELSE table
  /\ opens' = IF m = 1 THEN 1 ELSE 0
  /\ phase' = "code"
  /\ crashed' = FALSE

\* The next request: mode 2 cleans up and creates the request's enclave.
RecvCode ==
  /\ phase = "code"
  /\ IF mode = 2
     THEN fds' = SetupEnclave(CloseOpenFds(fds, Welcome)) /\ opens' = 1
     ELSE UNCHANGED <<fds, opens>>
  /\ phase' = "exec"
  /\ crashed' = (crashed /\ mode = 1)
  /\ UNCHANGED <<mode, conn>>

\* luaL_loadfilex in the enclave leaves the file open: require and dofile of the
\* executed code, and require of bootstrap.lua, in mode 1 before the first request.
LoadFile ==
  /\ IF mode = 1 THEN phase \in {"code", "exec"} ELSE mode = 2 /\ phase = "exec"
  /\ ~crashed
  /\ opens < MaxOpens
  /\ fds' = Opened(fds, "loaded")
  /\ opens' = opens + 1
  /\ UNCHANGED <<mode, phase, conn, crashed>>

\* io.open and io.close of the executed code.
OpenData ==
  /\ phase = "exec"
  /\ ~crashed
  /\ opens < MaxOpens
  /\ fds' = Opened(fds, "data")
  /\ opens' = opens + 1
  /\ UNCHANGED <<mode, phase, conn, crashed>>

CloseData(n) ==
  /\ phase = "exec"
  /\ fds[n] = "data"
  /\ fds' = [fds EXCEPT ![n] = "free"]
  /\ UNCHANGED <<mode, phase, conn, opens, crashed>>

\* The request is done.  Modes 0 and 2 close the Lua state, which closes its
\* files; mode 1 keeps it.
EndRequest ==
  /\ phase = "exec"
  /\ fds' = IF mode = 1 THEN fds
            ELSE [n \in Fds |-> IF fds[n] = "data" THEN "free" ELSE fds[n]]
  /\ phase' = "code"
  /\ UNCHANGED <<mode, conn, opens, crashed>>

\* main() of the enclave aborts it: nothing is closed any more.
AbortRequest ==
  /\ phase = "exec"
  /\ mode # 0 /\ ~crashed
  /\ fds' = Orphaned(fds)
  /\ crashed' = TRUE
  /\ phase' = "code"
  /\ UNCHANGED <<mode, conn, opens>>

\* The client has closed: the socket is closed, mode 1's enclave destroyed with its
\* Lua state open, and the server cleans up.
EndSession ==
  /\ phase = "code"
  /\ fds' = Orphaned(CloseOpenFds([fds EXCEPT ![conn] = "free"], Welcome))
  /\ opens' = 0
  /\ phase' = "accept"
  /\ UNCHANGED <<mode, conn, crashed>>

Next ==
  \/ \E m \in 0..2 : Accept(m)
  \/ RecvCode
  \/ LoadFile
  \/ OpenData
  \/ \E n \in Fds : CloseData(n)
  \/ EndRequest
  \/ AbortRequest
  \/ EndSession

Spec == Init /\ [][Next]_vars

-----------------------------------------------------------------------------
\* close_open_fds closes neither the listening socket nor the connection being
\* served, nor the device (the tests for "socket" and "isgx", funcs.cpp:315).
SocketsKept ==
  /\ fds[Welcome] = "socket"
  /\ phase # "accept" => fds[conn] = "socket"
  /\ Holds(fds, {"std", "socket", "isgx"})
       = 0..Welcome \union (IF phase # "accept" THEN {conn} ELSE {})
         \union Holds(fds, {"isgx"})

\* Leftovers do not add up from session to session: after a cleanup there are at
\* least two fewer of them than files one session may open, since the holes that
\* hide them are descriptors that were closed (close_open_fds, funcs.cpp:306-319).
LeftoversBounded ==
  phase = "accept" => Cardinality(Holds(fds, Files)) + 2 <= MaxOpens

\* "Close all the open file descriptors from the next from s" (funcs.cpp:303).
AllClosed == phase = "accept" => Holds(fds, Files) = {}
=============================================================================
