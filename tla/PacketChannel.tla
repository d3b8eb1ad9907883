---------------------------- MODULE PacketChannel ----------------------------
(***************************************************************************)
(* What the length-prefixed packets of one direction of a connection       *)
(* promise: packets are received whole and in the order they were sent,    *)
(* until the sender is gone.  A receiver that does not wait for more may   *)
(* then be handed the last packet in its full length with only the front   *)
(* of its text, and after it as many empty ones as it asks for.            *)
(***************************************************************************)
EXTENDS Naturals, Sequences

CONSTANTS Payloads,  \* what a packet may hold
          Missing    \* what stands for a byte that never came

VARIABLES sent,     \* the packets sent, in order
          got,      \* the packets received
          closed    \* the sender is gone

vars == <<sent, got, closed>>

Init == sent = <<>> /\ got = <<>> /\ closed = FALSE

Send ==
  /\ ~closed
  /\ \E p \in Payloads : sent' = Append(sent, p)
  /\ UNCHANGED <<got, closed>>

Next1 == Len(got) + 1   \* the packet that is received next

Receive ==
  /\ Next1 <= Len(sent)
  /\ got' = Append(got, sent[Next1])
  /\ UNCHANGED <<sent, closed>>

Close == ~closed /\ closed' = TRUE /\ UNCHANGED <<sent, got>>

\* The first k bytes of packet p, in a buffer of its length.
Cut(p, k) == [i \in 1..Len(p) |-> IF i <= k THEN p[i] ELSE Missing]

\* The last packet, of which the end never came.
ReceiveCut ==
  /\ closed
  /\ Next1 = Len(sent)
  /\ \E k \in 0..Len(sent[Next1]) - 1 : got' = Append(got, Cut(sent[Next1], k))
  /\ UNCHANGED <<sent, closed>>

\* No packet is left: what is received is empty.
ReceiveNothing ==
  /\ closed
  /\ Next1 > Len(sent)
  /\ got' = Append(got, <<>>)
  /\ UNCHANGED <<sent, closed>>

Next == Send \/ Receive \/ Close \/ ReceiveCut \/ ReceiveNothing

Spec == Init /\ [][Next]_vars
=============================================================================
