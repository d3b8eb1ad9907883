------------------------------- MODULE Framing -------------------------------
(***************************************************************************)
(* One direction of a connection, byte by byte: the loops that write and   *)
(* read a packet, over a socket that takes and returns as much as it likes.*)
(* This is what Wire abstracts a packet from.  Sender: send_data (client)  *)
(* or ocall_send_packet (server); receiver: recv_file with recv_data       *)
(* (server and, in the handshake, client) or lrecv_response (client).      *)
(*                                                                         *)
(* An int is one element of the stream: it is written and read by a single *)
(* call of four bytes, which the code relies on to be neither split nor    *)
(* short (recv_num, recv_number).                                          *)
(***************************************************************************)
EXTENDS Naturals, Sequences

CONSTANTS MaxLen,      \* bound: the longest packet
          MaxPackets,  \* bound: packets sent, and receptions tried after the end
          Room         \* what the socket's buffers hold

ASSUME FramingAssumption ==
  MaxLen \in Nat /\ MaxPackets \in Nat /\ Room \in Nat \ {0}

VARIABLES packets,   \* the lengths of the packets begun, in order
          spc, sbytes,            \* the sender: where it is, its rx_bytes
          stream,    \* the elements on their way
          waits,     \* the receiver is recv_data, which reads until it has it all
          rpc, number, buffer,    \* the receiver: where it is, its length and data
          received   \* history: the packets the receiver's caller got

sender   == <<packets, spc, sbytes>>
receiver == <<waits, rpc, number, buffer, received>>
vars == <<sender, stream, receiver>>

Byte(n, i) == [t |-> "byte", n |-> n, i |-> i]    \* byte i of packet n
TheLength(len) == [t |-> "len", v |-> len]
Missing == [t |-> "zero"]                          \* a byte calloc left zero
Payload(n) == [i \in 1..packets[n] |-> Byte(n, i)]

Init ==
  /\ packets = <<>> /\ spc = "idle" /\ sbytes = 0
  /\ stream = <<>>
  /\ waits \in BOOLEAN
  /\ rpc = "len" /\ number = 0 /\ buffer = <<>> /\ received = <<>>

-----------------------------------------------------------------------------
(* The sender.                                                             *)

\* Mutant: the length counts the terminating zero, the loop does not.
SendNumberPlusOne(len) ==
  /\ spc = "idle"
  /\ Len(packets) < MaxPackets
  /\ Len(stream) < Room
  /\ packets' = Append(packets, len)
  /\ stream' = Append(stream, TheLength(len + 1))
  /\ spc' = IF len = 0 THEN "idle" ELSE "body"
  /\ sbytes' = 0
  /\ UNCHANGED receiver

\* The int; an empty packet has no bytes.
SendNumber(len) ==
  /\ spc = "idle"
  /\ Len(packets) < MaxPackets
  /\ Len(stream) < Room
  /\ packets' = Append(packets, len)
  /\ stream' = Append(stream, TheLength(len))
  /\ spc' = IF len = 0 THEN "idle" ELSE "body"
  /\ sbytes' = 0
  /\ UNCHANGED receiver

\* Mutant: after a partial write the loop starts again at the first byte.
WriteBytesAgain(k) ==
  /\ spc = "body"
  /\ sbytes + k <= packets[Len(packets)]
  /\ Len(stream) + k <= Room
  /\ stream' = stream \o SubSeq(Payload(Len(packets)), 1, k)
  /\ sbytes' = sbytes + k
  /\ spc' = IF sbytes' = packets[Len(packets)] THEN "idle" ELSE "body"
  /\ UNCHANGED <<packets, receiver>>

\* write(2) takes k bytes of what is left.
WriteBytes(k) ==
  /\ spc = "body"
  /\ sbytes + k <= packets[Len(packets)]
  /\ Len(stream) + k <= Room
  /\ stream' = stream \o SubSeq(Payload(Len(packets)), sbytes + 1, sbytes + k)
  /\ sbytes' = sbytes + k
  /\ spc' = IF sbytes' = packets[Len(packets)] THEN "idle" ELSE "body"
  /\ UNCHANGED <<packets, receiver>>

\* The sender closes the connection or dies.
Leave ==
  /\ spc # "gone"
  /\ spc' = "gone"
  /\ UNCHANGED <<packets, sbytes, stream, receiver>>

-----------------------------------------------------------------------------
(* The receiver.                                                           *)

Deliver(data) ==
  /\ received' = Append(received, data)
  /\ rpc' = "len"
  /\ buffer' = <<>>

\* Mutant: the loop reads before it looks at the length.
RecvNumberAlwaysReads ==
  /\ rpc = "len"
  /\ stream # <<>>
  /\ Head(stream).t = "len"
  /\ number' = Head(stream).v
  /\ stream' = Tail(stream)
  /\ rpc' = "body"
  /\ UNCHANGED <<waits, buffer, received, sender>>

\* recv_num, and calloc of as many bytes.
RecvNumber ==
  /\ rpc = "len"
  /\ stream # <<>>
  /\ Head(stream).t = "len"
  /\ number' = Head(stream).v
  /\ stream' = Tail(stream)
  /\ IF number' = 0 THEN Deliver(<<>>)
                    ELSE rpc' = "body" /\ UNCHANGED <<buffer, received>>
  /\ UNCHANGED <<waits, sender>>

\* read(2) returns k bytes of what is asked for, the rest of the packet.
ReadBytes(k) ==
  /\ rpc = "body"
  /\ k <= Len(stream)
  /\ Len(buffer) + k <= number
  /\ stream' = SubSeq(stream, k + 1, Len(stream))
  /\ LET data == buffer \o SubSeq(stream, 1, k)
     IN  IF Len(data) = number THEN Deliver(data)
         ELSE buffer' = data /\ UNCHANGED <<rpc, received>>
  /\ UNCHANGED <<waits, number, sender>>

AtEnd == stream = <<>> /\ spc = "gone"

\* calloc's buffer of the announced length, as far as the packet arrived.
Padded == [i \in 1..number |-> IF i <= Len(buffer) THEN buffer[i] ELSE Missing]

\* End of file at the length: recv_file returns NULL and the session ends; the
\* client's lrecv_response takes the length for 0.
EndAtLength ==
  /\ rpc = "len"
  /\ AtEnd
  /\ IF waits
     THEN rpc' = "end" /\ UNCHANGED <<buffer, received>>
     ELSE Len(received) <= MaxPackets /\ Deliver(<<>>)
  /\ UNCHANGED <<waits, number, sender, stream>>

\* Mutant: the rest of the buffer is not cleared; it holds an earlier packet.
EndInPacketDirty ==
  /\ rpc = "body"
  /\ AtEnd
  /\ IF waits
     THEN rpc' = "spin" /\ UNCHANGED <<buffer, received>>
     ELSE Deliver([i \in 1..number |->
                     IF i <= Len(buffer) THEN buffer[i] ELSE Byte(1, i)])
  /\ UNCHANGED <<waits, number, sender, stream>>

\* End of file inside the packet: recv_data reads for ever; lrecv_response
\* returns its buffer and the announced length, which nothing tells its caller
\* from a whole packet (a zero may be a byte of the text, and with encryption
\* the zeros are decrypted like the rest).
EndInPacket ==
  /\ rpc = "body"
  /\ AtEnd
  /\ IF waits
     THEN rpc' = "spin" /\ UNCHANGED <<buffer, received>>
     ELSE Deliver(Padded)
  /\ UNCHANGED <<waits, number, sender, stream>>

Next ==
  \/ \E len \in 0..MaxLen : SendNumber(len)
  \/ \E k \in 1..MaxLen : WriteBytes(k) \/ ReadBytes(k)
  \/ Leave
  \/ RecvNumber
  \/ EndAtLength
  \/ EndInPacket

(***************************************************************************)
(* Fairness: a write(2) or read(2) that can transfer something eventually  *)
(* does.  Nothing makes the sender send or leave.                          *)
(***************************************************************************)
Spec == Init /\ [][Next]_vars
FairSpec ==
  /\ Spec
  /\ WF_vars(\E k \in 1..MaxLen : WriteBytes(k))
  /\ WF_vars(RecvNumber \/ \E k \in 1..MaxLen : ReadBytes(k))

-----------------------------------------------------------------------------
TypeOK ==
  /\ packets \in Seq(0..MaxLen) /\ Len(packets) <= MaxPackets
  /\ spc \in {"idle", "body", "gone"} /\ sbytes \in 0..MaxLen
  /\ Len(stream) <= Room
  /\ waits \in BOOLEAN /\ rpc \in {"len", "body", "end", "spin"}
  /\ number \in 0..MaxLen /\ Len(buffer) <= number

Texts == {[i \in 1..len |-> Byte(n, i)] : n \in 1..MaxPackets, len \in 0..MaxLen}
Sent  == [n \in 1..Len(packets) |-> Payload(n)]

Channel == INSTANCE PacketChannel WITH
  Payloads <- Texts,
  sent     <- Sent,
  got      <- received,
  closed   <- spc = "gone",
  Missing  <- Missing

\* However the socket splits and merges what is written, the receiver gets the
\* packets that were sent (send_data and recv_data, ocall_send_packet and
\* lrecv_response).  Only a sender that is gone leaves one cut: its receiver gets
\* one of the announced length that ends in zeros, and empty ones after it.
ChannelSpec == Channel!Spec

\* The server is caught in recv_data only by a client that left inside a packet.
SpinsOnlyWhenCut ==
  rpc = "spin" => spc = "gone" /\ sbytes < packets[Len(packets)]

\* A packet that was begun is received, unless its sender leaves.
PacketsArrive ==
  \A n \in 1..MaxPackets :
    Len(packets) = n ~> Len(received) >= n \/ spc = "gone"
=============================================================================
