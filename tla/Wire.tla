-------------------------------- MODULE Wire --------------------------------
(***************************************************************************)
(* What the client library and the server process share: the TCP           *)
(* connections, the listening socket's accept queue and the units written  *)
(* to a connection.  A unit is one int (send_number / send_int), one raw   *)
(* public key, or one packet (an int length followed by that many bytes).  *)
(* TCP neither loses nor reorders bytes, so each direction is a FIFO.      *)
(***************************************************************************)
EXTENDS Naturals, Sequences

CONSTANTS Sessions,   \* connections clients make, each connects at most once
          NoSession,  \* the public key of nobody (32 zero bytes)
          Backlog     \* second argument of listen(2)

ASSUME NoSessionAssumption == NoSession \notin Sessions
ASSUME BacklogAssumption   == Backlog \in Nat

VARIABLES c2s,      \* c2s[s]: units on their way from client s to the server
          s2c,      \* s2c[s]: units on their way from the server to client s
          fin,      \* the sessions whose client end is closed
          rst,      \* the sessions whose reset the server has seen
          up,       \* the server process exists
          backlog   \* connected sessions the server has not accepted yet

wire == <<c2s, s2c, fin, rst, up, backlog>>

Zero == 0   \* the key of an absent or all-zero symmetric key: plain text

(***************************************************************************)
(* A request is call n of session s; n = 0 stands for the module file the  *)
(* session uploads.  Its output is the same record: mod then names the     *)
(* session whose module file the called function has read, NoSession when  *)
(* it could read none.                                                     *)
(***************************************************************************)
Request == [s : Sessions, n : Nat, mod : Sessions \union {NoSession}]
RequestOf(s, n) == [s |-> s, n |-> n, mod |-> NoSession]

Num == [t : {"num"}, v : Nat]                          \* one int
ClientKey == [t : {"cpk"}, v : Sessions]               \* a client's public key
ServerKey == [t : {"spk"}, v : Nat]                    \* an enclave's public key
\* Half of the symmetric key v, boxed from the pair spk to the public key cpk.
Box == [t : {"box"}, v : Nat, cpk : Sessions \union {NoSession}, spk : Nat]
\* A packet of text, xor-ed with the key stream of key (Zero: not encrypted).
\* cut: the sender went away between the length and the last byte.
Packet == [t : {"pkt"}, what : {"code", "module", "name", "result", "timers"},
           out : Seq(Request), key : Nat, cut : BOOLEAN]

UpUnit   == Num \union ClientKey \union Packet
DownUnit == ServerKey \union Box \union Packet

TheInt(n)      == [t |-> "num", v |-> n]
\* Mutant: the key buffer is sent before the pair is generated.
TheClientKeyUnset(s) == [t |-> "cpk", v |-> NoSession]
TheClientKey(s) == [t |-> "cpk", v |-> s]
TheServerKey(k) == [t |-> "spk", v |-> k]
Text(what, out, key) ==
  [t |-> "pkt", what |-> what, out |-> out, key |-> key, cut |-> FALSE]

WireInit ==
  /\ c2s = [s \in Sessions |-> <<>>]
  /\ s2c = [s \in Sessions |-> <<>>]
  /\ fin = {}
  /\ rst = {}
  /\ up = TRUE
  /\ backlog = <<>>

WireTypeOK ==
  /\ c2s \in [Sessions -> Seq(UpUnit)]
  /\ s2c \in [Sessions -> Seq(DownUnit)]
  /\ fin \subseteq Sessions
  /\ rst \subseteq Sessions
  /\ up \in BOOLEAN
  /\ backlog \in Seq(Sessions)

\* Writes to a socket.  The server's are swallowed while a closed client's reset
\* has not arrived, and fail after it.
SendUp(s, unit)    == c2s' = [c2s EXCEPT ![s] = Append(@, unit)]
SendDown(s, units) == s \notin rst /\ s2c' = [s2c EXCEPT ![s] = @ \o units]

\* A read that finds the unit its reader's code expects.
ArrivedUp(s, t)   == c2s[s] # <<>> /\ Head(c2s[s]).t = t
ArrivedDown(s, T) == s2c[s] # <<>> /\ Head(s2c[s]).t \in T
TakeUp(s)   == c2s' = [c2s EXCEPT ![s] = Tail(@)]
TakeDown(s) == s2c' = [s2c EXCEPT ![s] = Tail(@)]

\* read(2) returns 0: everything is consumed and the peer has closed.
EofUp(s)   == c2s[s] = <<>> /\ s \in fin
EofDown(s) == s2c[s] = <<>> /\ ~up

\* read(2) returns -1 once: the client closed with units unread, or was sent some
\* after it had closed.
ResetUp(s) == EofUp(s) /\ s2c[s] # <<>> /\ s \notin rst
=============================================================================
