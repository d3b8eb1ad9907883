--------------------------- MODULE FramingProofs ---------------------------
(***************************************************************************)
(* The loops of Framing implement PacketChannel for packets of any length, *)
(* any number of them and any room in the socket's buffers.                *)
(*                                                                         *)
(* Every element ever sent has a place: element i of packet n, where the   *)
(* length is element 0.  What is on its way are the elements between the   *)
(* place the receiver has come to and the place the sender has come to.    *)
(***************************************************************************)
EXTENDS Framing, TLAPS

-----------------------------------------------------------------------------
(* Runs of L consecutive places (pn[j], pi[j]), and the place after them,  *)
(* in packets of the given sizes.                                          *)
Run(pn, pi, size, L) ==
  \A j \in 1..L :
    /\ pn[j] \in DOMAIN size /\ pi[j] <= size[pn[j]]
    /\ pi[j] = size[pn[j]] => pn[j + 1] = pn[j] + 1 /\ pi[j + 1] = 0
    /\ \A k \in (j + 1)..(L + 1) :
         pi[j] + (k - j) <= size[pn[j]] => pn[k] = pn[j] /\ pi[k] = pi[j] + (k - j)

\* The run, and m more elements of packet N from its element I on.
Grows(L, P, size, pn, pi, Q, size2, N, I, m) ==
  \E qn, qi \in [1..(L + m + 1) -> Nat] :
    /\ Run(qn, qi, size2, L + m)
    /\ qn[1] = pn[1] /\ qi[1] = pi[1]
    /\ \A j \in 1..L : qn[j] = pn[j] /\ qi[j] = pi[j]
    /\ \A j \in 1..m : qn[L + j] = N /\ qi[L + j] = I + (j - 1)
    /\ qn[L + m + 1] = IF I + m <= size2[N] THEN N ELSE N + 1
    /\ qi[L + m + 1] = IF I + m <= size2[N] THEN I + m ELSE 0

\* The run without its first m elements, all of the packet in front.
Shrinks(L, P, size, pn, pi, m) ==
  /\ pn[1] \in 1..P
  /\ \A j \in 1..m : pn[j] = pn[1] /\ pi[j] = pi[1] + (j - 1)
  /\ \E qn, qi \in [1..(L - m + 1) -> Nat] :
       /\ Run(qn, qi, size, L - m)
       /\ \A j \in 1..(L - m + 1) : qn[j] = pn[j + m] /\ qi[j] = pi[j + m]
       /\ qn[1] = IF pi[1] + m <= size[pn[1]] THEN pn[1] ELSE pn[1] + 1
       /\ qi[1] = IF pi[1] + m <= size[pn[1]] THEN pi[1] + m ELSE 0

\* Counting from j past the end e to k: what e and k are.
LEMMA Counting ==
  ASSUME NEW a \in Nat, NEW s \in Nat, NEW e \in Nat, NEW j \in 1..(e - 1), NEW m \in Nat,
         NEW k \in (j + 1)..(e + m), k > e, a + (k - j) <= s
  PROVE  /\ e \in (j + 1)..e /\ a + (e - j) <= s
         /\ k \in e..(e + m) /\ (a + (e - j)) + (k - e) = a + (k - j)
  OBVIOUS

\* Where the place of the element after m more is, inside a packet.
LEMMA RunInside ==
  ASSUME NEW L \in Nat, NEW P \in Nat, NEW size \in [1..P -> Nat],
         NEW pn \in [1..(L + 1) -> Nat], NEW pi \in [1..(L + 1) -> Nat], Run(pn, pi, size, L),
         L > 0, NEW m \in 1..L, pi[1] + (m - 1) <= size[pn[1]]
  PROVE  /\ \A j \in 1..m : pn[j] = pn[1] /\ pi[j] = pi[1] + (j - 1)
         /\ IF pi[1] + m <= size[pn[1]] THEN pn[m + 1] = pn[1] /\ pi[m + 1] = pi[1] + m
            ELSE pn[m + 1] = pn[1] + 1 /\ pi[m + 1] = 0
  <1>1. /\ 1 \in 1..L /\ pn[1] \in 1..P /\ size[pn[1]] \in Nat /\ pi[1] \in Nat
        /\ \A k \in (1 + 1)..(L + 1) :
             pi[1] + (k - 1) <= size[pn[1]] => pn[k] = pn[1] /\ pi[k] = pi[1] + (k - 1)
    BY DEF Run
  <1>2. ASSUME NEW j \in 1..m PROVE pn[j] = pn[1] /\ pi[j] = pi[1] + (j - 1)
    <2>1. CASE j = 1
      BY <1>1, <2>1
    <2>2. CASE j # 1
      <3>1. j \in (1 + 1)..(L + 1) /\ pi[1] + (j - 1) <= size[pn[1]]
        BY <1>1, <2>2
      <3> QED BY <1>1, <3>1
    <2> QED BY <2>1, <2>2
  <1>3. CASE pi[1] + m <= size[pn[1]]
    <2>1. m + 1 \in (1 + 1)..(L + 1) /\ (m + 1) - 1 = m
      OBVIOUS
    <2> QED BY <1>1, <1>2, <1>3, <2>1
  <1>4. CASE ~(pi[1] + m <= size[pn[1]])
    <2>1. m \in 1..m /\ pn[m] = pn[1] /\ pi[m] = size[pn[m]]
      BY <1>1, <1>2, <1>4
    <2> QED BY <1>2, <1>4, <2>1 DEF Run
  <1> QED BY <1>3, <1>4

\* The run after m more elements of packet N are written.
LEMMA RunGrows ==
  ASSUME NEW L \in Nat, NEW P \in Nat, NEW size \in [1..P -> Nat],
         NEW pn \in [1..(L + 1) -> Nat], NEW pi \in [1..(L + 1) -> Nat], Run(pn, pi, size, L),
         NEW Q \in Nat, P <= Q, NEW size2 \in [1..Q -> Nat], \A n \in 1..P : size2[n] = size[n],
         NEW N \in 1..Q, NEW I \in Nat, pn[L + 1] = N, pi[L + 1] = I,
         NEW m \in Nat \ {0}, I + m <= size2[N] + 1
  PROVE  Grows(L, P, size, pn, pi, Q, size2, N, I, m)
  <1> DEFINE In(j) == I + (j - (L + 1)) <= size2[N]
             qn == [j \in 1..(L + m + 1) |->
                      IF j <= L + 1 THEN pn[j] ELSE IF In(j) THEN N ELSE N + 1]
             qi == [j \in 1..(L + m + 1) |->
                      IF j <= L + 1 THEN pi[j] ELSE IF In(j) THEN I + (j - (L + 1)) ELSE 0]
  <1>0. size2[N] \in Nat
    OBVIOUS
  <1>1. qn \in [1..(L + m + 1) -> Nat] /\ qi \in [1..(L + m + 1) -> Nat]
    BY <1>0
  <1>2. \A j \in 1..(L + 1) : qn[j] = pn[j] /\ qi[j] = pi[j]
    OBVIOUS
  <1>3. ASSUME NEW j \in 1..m
        PROVE  /\ qn[L + 1 + j] = IF I + j <= size2[N] THEN N ELSE N + 1
               /\ qi[L + 1 + j] = IF I + j <= size2[N] THEN I + j ELSE 0
    <2>1. L + 1 + j \in 1..(L + m + 1) /\ ~(L + 1 + j <= L + 1) /\ (L + 1 + j) - (L + 1) = j
      OBVIOUS
    <2> QED BY <2>1
  <1> HIDE DEF qn, qi
  <1>4. Run(qn, qi, size2, L + m)
    <2> USE <1>1, <1>2, <1>3
    <2>1. ASSUME NEW k \in (L + 1)..(L + m + 1)
          PROVE  IF I + (k - (L + 1)) <= size2[N] THEN qn[k] = N /\ qi[k] = I + (k - (L + 1))
                 ELSE qn[k] = N + 1 /\ qi[k] = 0
      <3>1. CASE k = L + 1
        BY <3>1
      <3>2. CASE k # L + 1
        <4>1. PICK d \in 1..m : k = L + 1 + d
          <5>1. k - (L + 1) \in 1..m /\ k = L + 1 + (k - (L + 1))
            BY <3>2
          <5> QED BY <5>1
        <4>2. k - (L + 1) = d
          BY <4>1
        <4>3. /\ qn[k] = IF I + d <= size2[N] THEN N ELSE N + 1
              /\ qi[k] = IF I + d <= size2[N] THEN I + d ELSE 0
          BY <4>1
        <4> QED BY <4>2, <4>3
      <3> QED BY <3>1, <3>2
    <2>2. size2[N] \in Nat
      OBVIOUS
    <2>3. ASSUME NEW j \in 1..L
          PROVE  /\ qn[j] \in DOMAIN size2 /\ qi[j] <= size2[qn[j]]
                 /\ qi[j] = size2[qn[j]] => qn[j + 1] = qn[j] + 1 /\ qi[j + 1] = 0
                 /\ \A k \in (j + 1)..(L + m + 1) :
                      qi[j] + (k - j) <= size2[qn[j]] => qn[k] = qn[j] /\ qi[k] = qi[j] + (k - j)
      <3>1. /\ qn[j] = pn[j] /\ qi[j] = pi[j] /\ j + 1 \in 1..(L + 1)
            /\ qn[j + 1] = pn[j + 1] /\ qi[j + 1] = pi[j + 1]
        <4>1. j \in 1..(L + 1) /\ j + 1 \in 1..(L + 1)
          OBVIOUS
        <4> QED BY <4>1
      <3>2. /\ pn[j] \in 1..P /\ size2[pn[j]] = size[pn[j]] /\ size[pn[j]] \in Nat /\ pi[j] \in Nat
            /\ pi[j] <= size[pn[j]]
            /\ pi[j] = size[pn[j]] => pn[j + 1] = pn[j] + 1 /\ pi[j + 1] = 0
        <4>1. /\ pn[j] \in 1..P /\ pi[j] <= size[pn[j]]
              /\ pi[j] = size[pn[j]] => pn[j + 1] = pn[j] + 1 /\ pi[j + 1] = 0
          BY DEF Run
        <4>2. j \in 1..(L + 1)
          OBVIOUS
        <4> QED BY <4>1, <4>2
      <3>3. \A k \in (j + 1)..(L + 1) :
              pi[j] + (k - j) <= size[pn[j]] => pn[k] = pn[j] /\ pi[k] = pi[j] + (k - j)
        BY DEF Run
      <3>4. ASSUME NEW k \in (j + 1)..(L + m + 1), qi[j] + (k - j) <= size2[qn[j]]
            PROVE  qn[k] = qn[j] /\ qi[k] = qi[j] + (k - j)
        <4>1. CASE k <= L + 1
          <5>1. k \in (j + 1)..(L + 1) /\ k \in 1..(L + 1)
            BY <4>1
          <5>2. pi[j] + (k - j) <= size[pn[j]]
            BY <3>1, <3>2, <3>4
          <5>3. qn[k] = pn[k] /\ qi[k] = pi[k]
            BY <5>1
          <5>4. pn[k] = pn[j] /\ pi[k] = pi[j] + (k - j)
            BY <3>3, <5>1, <5>2
          <5> QED BY <3>1, <5>3, <5>4
        <4>2. CASE k > L + 1
          <5>0. pi[j] + (k - j) <= size[pn[j]]
            BY <3>1, <3>2, <3>4
          <5>1. PICK a \in Nat, s \in Nat, e \in Nat : a = pi[j] /\ s = size[pn[j]] /\ e = L + 1
            BY <3>2
          <5>2. /\ L + 1 \in (j + 1)..(L + 1) /\ pi[j] + ((L + 1) - j) <= size[pn[j]]
                /\ k \in (L + 1)..((L + 1) + m)
                /\ (pi[j] + ((L + 1) - j)) + (k - (L + 1)) = pi[j] + (k - j)
            <6>1. j \in 1..(e - 1) /\ k \in (j + 1)..(e + m) /\ k > e /\ a + (k - j) <= s
              BY <4>2, <5>0, <5>1
            <6>2. /\ e \in (j + 1)..e /\ a + (e - j) <= s
                  /\ k \in e..(e + m) /\ (a + (e - j)) + (k - e) = a + (k - j)
              BY <6>1, Counting
            <6> QED BY <5>1, <6>2
          <5>3. /\ pn[j] = N /\ I = pi[j] + ((L + 1) - j)
                /\ k \in (L + 1)..(L + m + 1) /\ I + (k - (L + 1)) = pi[j] + (k - j)
            BY <3>3, <5>2
          <5>4. I + (k - (L + 1)) <= size2[N]
            BY <3>2, <5>0, <5>3
          <5>5. qn[k] = N /\ qi[k] = I + (k - (L + 1))
            BY <2>1, <5>3, <5>4
          <5> QED BY <3>1, <5>3, <5>5
        <4> QED BY <4>1, <4>2
      <3>5. DOMAIN size2 = 1..Q /\ DOMAIN size = 1..P
        OBVIOUS
      <3>6. pn[j] \in 1..Q
        BY <3>2
      <3>7. qn[j] \in DOMAIN size2
        BY <3>1, <3>5, <3>6
      <3>8. qi[j] <= size2[qn[j]] /\ (qi[j] = size2[qn[j]] => qn[j + 1] = qn[j] + 1 /\ qi[j + 1] = 0)
        BY <3>1, <3>2
      <3> QED BY <3>4, <3>7, <3>8
    <2>4. ASSUME NEW j \in (L + 1)..(L + m)
          PROVE  /\ qn[j] \in DOMAIN size2 /\ qi[j] <= size2[qn[j]]
                 /\ qi[j] = size2[qn[j]] => qn[j + 1] = qn[j] + 1 /\ qi[j + 1] = 0
                 /\ \A k \in (j + 1)..(L + m + 1) :
                      qi[j] + (k - j) <= size2[qn[j]] => qn[k] = qn[j] /\ qi[k] = qi[j] + (k - j)
      <3>1. j \in (L + 1)..(L + m + 1) /\ I + (j - (L + 1)) <= size2[N]
        BY <2>2
      <3>2. qn[j] = N /\ qi[j] = I + (j - (L + 1))
        BY <2>1, <3>1
      <3>3. j + 1 \in (L + 1)..(L + m + 1)
        OBVIOUS
      <3>4. qi[j] = size2[qn[j]] => qn[j + 1] = qn[j] + 1 /\ qi[j + 1] = 0
        <4> SUFFICES ASSUME I + (j - (L + 1)) = size2[N] PROVE qn[j + 1] = N + 1 /\ qi[j + 1] = 0
          BY <3>2
        <4>1. ~(I + ((j + 1) - (L + 1)) <= size2[N])
          BY <2>2
        <4> QED BY <2>1, <3>3, <4>1
      <3>5. ASSUME NEW k \in (j + 1)..(L + m + 1), qi[j] + (k - j) <= size2[qn[j]]
            PROVE  qn[k] = qn[j] /\ qi[k] = qi[j] + (k - j)
        <4>1. k \in (L + 1)..(L + m + 1) /\ qi[j] + (k - j) = I + (k - (L + 1))
          BY <3>2
        <4> QED BY <2>1, <3>2, <3>5, <4>1
      <3> QED BY <3>1, <3>2, <3>4, <3>5
    <2>5. \A j \in 1..(L + m) : j \in 1..L \/ j \in (L + 1)..(L + m)
      OBVIOUS
    <2> QED BY <2>3, <2>4, <2>5 DEF Run
  <1>5. ASSUME NEW j \in 1..m PROVE qn[L + j] = N /\ qi[L + j] = I + (j - 1)
    <2>1. CASE j = 1
      BY <1>2, <2>1
    <2>2. CASE j # 1
      <3>1. PICK d \in 1..m : j = d + 1
        <4>1. j - 1 \in 1..m /\ j = (j - 1) + 1
          BY <2>2
        <4> QED BY <4>1
      <3>2. L + j = L + 1 + d /\ I + d <= size2[N] /\ j - 1 = d
        BY <1>0, <3>1
      <3> QED BY <1>3, <3>2
    <2> QED BY <2>1, <2>2
  <1>6. L + m + 1 = L + 1 + m /\ m \in 1..m /\ 1 \in 1..(L + 1)
    OBVIOUS
  <1>7. /\ qn[L + m + 1] = IF I + m <= size2[N] THEN N ELSE N + 1
        /\ qi[L + m + 1] = IF I + m <= size2[N] THEN I + m ELSE 0
    BY <1>3, <1>6
  <1>8. \A j \in 1..L : j \in 1..(L + 1)
    OBVIOUS
  <1> QED BY <1>1, <1>2, <1>4, <1>5, <1>6, <1>7, <1>8 DEF Grows

\* The run after m elements of the packet in front are read: what they were, and
\* what is in front now.
LEMMA RunShrinks ==
  ASSUME NEW L \in Nat, NEW P \in Nat, NEW size \in [1..P -> Nat],
         NEW pn \in [1..(L + 1) -> Nat], NEW pi \in [1..(L + 1) -> Nat], Run(pn, pi, size, L),
         L > 0, NEW m \in 1..L, pi[1] + (m - 1) <= size[pn[1]]
  PROVE  Shrinks(L, P, size, pn, pi, m)
  <1> DEFINE qn == [j \in 1..(L - m + 1) |-> pn[j + m]]
             qi == [j \in 1..(L - m + 1) |-> pi[j + m]]
  <1>1. \A j \in 1..(L - m + 1) : j + m \in 1..(L + 1)
    OBVIOUS
  <1>2. /\ qn \in [1..(L - m + 1) -> Nat] /\ qi \in [1..(L - m + 1) -> Nat]
        /\ \A j \in 1..(L - m + 1) : qn[j] = pn[j + m] /\ qi[j] = pi[j + m]
    BY <1>1
  <1> HIDE DEF qn, qi
  <1>3. Run(qn, qi, size, L - m)
    <2> USE <1>2
    <2> SUFFICES ASSUME NEW j \in 1..(L - m)
                 PROVE  /\ qn[j] \in DOMAIN size /\ qi[j] <= size[qn[j]]
                        /\ qi[j] = size[qn[j]] => qn[j + 1] = qn[j] + 1 /\ qi[j + 1] = 0
                        /\ \A k \in (j + 1)..(L - m + 1) :
                             qi[j] + (k - j) <= size[qn[j]] => qn[k] = qn[j] /\ qi[k] = qi[j] + (k - j)
      BY DEF Run
    <2>1. /\ j + m \in 1..L /\ j \in 1..(L - m + 1) /\ j + 1 \in 1..(L - m + 1)
          /\ (j + 1) + m = (j + m) + 1
      OBVIOUS
    <2>2. /\ qn[j] = pn[j + m] /\ qi[j] = pi[j + m]
          /\ qn[j + 1] = pn[(j + m) + 1] /\ qi[j + 1] = pi[(j + m) + 1]
      <3>1. qn[j] = pn[j + m] /\ qi[j] = pi[j + m]
        BY <2>1
      <3>2. qn[j + 1] = pn[(j + 1) + m] /\ qi[j + 1] = pi[(j + 1) + m]
        BY <2>1
      <3> QED BY <2>1, <3>1, <3>2
    <2>3. /\ pn[j + m] \in DOMAIN size /\ pi[j + m] <= size[pn[j + m]]
          /\ pi[j + m] = size[pn[j + m]] => pn[(j + m) + 1] = pn[j + m] + 1 /\ pi[(j + m) + 1] = 0
          /\ \A k \in ((j + m) + 1)..(L + 1) :
               pi[j + m] + (k - (j + m)) <= size[pn[j + m]]
                 => pn[k] = pn[j + m] /\ pi[k] = pi[j + m] + (k - (j + m))
      BY <2>1 DEF Run
    <2>4. ASSUME NEW k \in (j + 1)..(L - m + 1), qi[j] + (k - j) <= size[qn[j]]
          PROVE  qn[k] = qn[j] /\ qi[k] = qi[j] + (k - j)
      <3>1. k + m \in ((j + m) + 1)..(L + 1) /\ (k + m) - (j + m) = k - j /\ k \in 1..(L - m + 1)
        OBVIOUS
      <3> QED BY <2>2, <2>3, <2>4, <3>1
    <2> QED BY <2>2, <2>3, <2>4
  <1>4. /\ \A j \in 1..m : pn[j] = pn[1] /\ pi[j] = pi[1] + (j - 1)
        /\ IF pi[1] + m <= size[pn[1]] THEN pn[m + 1] = pn[1] /\ pi[m + 1] = pi[1] + m
           ELSE pn[m + 1] = pn[1] + 1 /\ pi[m + 1] = 0
    BY RunInside
  <1>5. 1 \in 1..(L - m + 1) /\ 1 + m = m + 1 /\ 1 \in 1..L
    OBVIOUS
  <1>6. pn[1] \in 1..P
    BY <1>5 DEF Run
  <1>7. qn[1] = pn[m + 1] /\ qi[1] = pi[m + 1]
    BY <1>2, <1>5
  <1> QED BY <1>2, <1>3, <1>4, <1>6, <1>7 DEF Shrinks

-----------------------------------------------------------------------------
(* The invariant.                                                          *)

\* The sender is inside a packet it has begun.
InPacket == packets # <<>> /\ sbytes < packets[Len(packets)]
SenderInv ==
  /\ packets # <<>> => sbytes <= packets[Len(packets)]
  /\ spc = "idle" => ~InPacket
  /\ spc = "body" => InPacket

ReadsInside == rpc \in {"body", "spin"}

Front(pn, pi) ==   \* the receiver's place
  /\ pn[1] = Len(received) + 1
  /\ pi[1] = IF ReadsInside THEN Len(buffer) + 1 ELSE 0
Back(pn, pi) ==    \* the sender's place
  /\ pn[Len(stream) + 1] = IF InPacket THEN Len(packets) ELSE Len(packets) + 1
  /\ pi[Len(stream) + 1] = IF InPacket THEN sbytes + 1 ELSE 0

Element(n, i) == IF i = 0 THEN TheLength(packets[n]) ELSE Byte(n, i)
Contents(pn, pi) == \A j \in 1..Len(stream) : stream[j] = Element(pn[j], pi[j])

Lined ==
  \E pn, pi \in [1..(Len(stream) + 1) -> Nat] :
    Front(pn, pi) /\ Back(pn, pi) /\ Contents(pn, pi) /\ Run(pn, pi, packets, Len(stream))

\* What the receiver has is what was sent, as far as it has come.
Prefix(n, b) == [i \in 1..b |-> Byte(n, i)]
Faithful ==
  /\ Len(received) <= Len(packets)
  /\ \A n \in 1..Len(received) : received[n] = Payload(n)
  /\ ~ReadsInside => buffer = <<>>
  /\ ReadsInside => /\ Len(received) < Len(packets)
                    /\ number = packets[Len(received) + 1]
                    /\ Len(buffer) < number
                    /\ buffer = Prefix(Len(received) + 1, Len(buffer))
  /\ rpc = "spin" => spc = "gone" /\ stream = <<>>
InStep == Lined /\ Faithful

\* lrecv_response after the end of the stream.
Over ==
  /\ spc = "gone" /\ stream = <<>> /\ rpc = "len" /\ buffer = <<>> /\ ~waits
  /\ Len(received) >= Len(packets)

ByteType == [t : {"byte"}, n : Nat, i : Nat]
CharType == ByteType \union {Missing}   \* what a reader's caller may find
LengthType == [t : {"len"}, v : 0..MaxLen]
Types ==
  /\ TypeOK
  /\ stream \in Seq(ByteType \union LengthType)
  /\ buffer \in Seq(ByteType) /\ received \in Seq(Seq(CharType))

Inv == Types /\ SenderInv /\ (InStep \/ Over)

LEMMA InitInv == Init => Inv
  <1> USE FramingAssumption
  <1> SUFFICES ASSUME Init PROVE Inv
    OBVIOUS
  <1> DEFINE pn == [j \in 1..1 |-> 1]
             pi == [j \in 1..1 |-> 0]
  <1>1. Front(pn, pi) /\ Back(pn, pi) /\ Contents(pn, pi) /\ Run(pn, pi, packets, Len(stream))
    BY DEF Init, Front, Back, Contents, Run, ReadsInside, InPacket
  <1>2. pn \in [1..(Len(stream) + 1) -> Nat] /\ pi \in [1..(Len(stream) + 1) -> Nat]
    BY DEF Init
  <1> HIDE DEF pn, pi
  <1>3. Lined
    BY <1>1, <1>2 DEF Lined
  <1> QED BY <1>3 DEF Init, Inv, TypeOK, SenderInv, InStep, Faithful, InPacket, ReadsInside, Types

LEMMA SizesAreNat ==
  ASSUME NEW s \in Seq(0..MaxLen) PROVE s \in [1..Len(s) -> Nat]
  BY FramingAssumption

\* The types of the state, one by one.
LEMMA TypeFacts ==
  ASSUME Types
  PROVE  /\ Len(stream) \in Nat /\ Len(packets) \in Nat /\ Len(received) \in Nat
         /\ Len(buffer) \in Nat /\ sbytes \in Nat /\ number \in Nat
         /\ packets \in [1..Len(packets) -> Nat]
         /\ \A n \in 1..Len(packets) : packets[n] \in 0..MaxLen /\ packets[n] \in Nat
         /\ packets # <<>> <=> Len(packets) > 0
  BY FramingAssumption DEF Types, TypeOK

LEMMA ByteIsTyped ==
  ASSUME NEW n \in Nat, NEW i \in Nat
  PROVE  Byte(n, i) \in ByteType /\ Byte(n, i).t = "byte"
  BY DEF Byte, ByteType

LEMMA PayloadType ==
  ASSUME packets \in Seq(0..MaxLen), NEW n \in 1..Len(packets)
  PROVE  /\ Payload(n) \in Seq(ByteType) /\ Len(Payload(n)) = packets[n]
         /\ \A i \in 1..packets[n] : Payload(n)[i] = Byte(n, i)
  <1> USE FramingAssumption
  <1>1. packets[n] \in Nat
    OBVIOUS
  <1>2. \A i \in 1..packets[n] : Byte(n, i) \in ByteType
    BY <1>1, ByteIsTyped
  <1> QED BY <1>1, <1>2 DEF Payload

\* The int of a new packet.
LEMMA SendInv ==
  ASSUME Inv, NEW len \in 0..MaxLen, SendNumber(len)
  PROVE  Inv'
  <1> USE FramingAssumption
  <1>0. /\ Types /\ Lined /\ Faithful /\ ~InPacket
        /\ Len(packets) < MaxPackets /\ Len(stream) < Room /\ spc = "idle"
    BY DEF Inv, InStep, SendNumber, SenderInv, Over
  <1>1. PICK L \in Nat, P \in Nat, R \in Nat : L = Len(stream) /\ P = Len(packets) /\ R = Len(received)
    BY <1>0, TypeFacts
  <1>2. /\ packets' \in Seq(0..MaxLen) /\ Len(packets') = P + 1 /\ packets'[P + 1] = len
        /\ \A n \in 1..P : packets'[n] = packets[n]
        /\ packets \in [1..P -> Nat] /\ packets' \in [1..(P + 1) -> Nat] /\ packets' # <<>>
    <2>1. packets \in Seq(0..MaxLen) /\ packets' = Append(packets, len)
      BY <1>0 DEF SendNumber, Types, TypeOK
    <2>2. packets' \in Seq(0..MaxLen) /\ Len(packets') = P + 1
      BY <1>1, <2>1
    <2>3. packets \in [1..P -> Nat] /\ packets' \in [1..(P + 1) -> Nat]
      BY <1>1, <2>1, <2>2, SizesAreNat
    <2>4. packets'[P + 1] = len /\ (\A n \in 1..P : packets'[n] = packets[n]) /\ packets' # <<>>
      BY <1>1, <2>1, <2>2
    <2> QED BY <2>2, <2>3, <2>4
  <1>3. /\ stream' \in Seq(ByteType \union LengthType) /\ Len(stream') = L + 1
        /\ \A j \in 1..L : stream'[j] = stream[j]
        /\ stream'[L + 1] = TheLength(len)
    <2>1. TheLength(len) \in ByteType \union LengthType
      BY DEF TheLength, LengthType
    <2> QED BY <1>0, <1>1, <2>1 DEF SendNumber, Types
  <1>4. /\ waits' = waits /\ rpc' = rpc /\ number' = number /\ buffer' = buffer /\ received' = received
        /\ sbytes' = 0 /\ spc' = IF len = 0 THEN "idle" ELSE "body"
    BY DEF SendNumber, receiver
  <1>5. Types' /\ SenderInv' /\ (InPacket' <=> len # 0)
    BY <1>0, <1>1, <1>2, <1>3, <1>4 DEF Types, TypeOK, SenderInv, InPacket
  <1>6. PICK pn, pi \in [1..(L + 1) -> Nat] :
          Front(pn, pi) /\ Back(pn, pi) /\ Contents(pn, pi) /\ Run(pn, pi, packets, L)
    BY <1>0, <1>1 DEF Lined
  <1>7. pn[L + 1] = P + 1 /\ pi[L + 1] = 0
    BY <1>0, <1>1, <1>6 DEF Back
  <1>17. Grows(L, P, packets, pn, pi, P + 1, packets', P + 1, 0, 1)
    <2>1. PICK N \in 1..(P + 1), I \in Nat, m \in Nat \ {0}, Q \in Nat :
            N = P + 1 /\ I = 0 /\ m = 1 /\ Q = P + 1
      OBVIOUS
    <2>11. PICK size2 \in [1..Q -> Nat] : size2 = packets'
      BY <1>2, <2>1
    <2>2. I + m <= size2[N] + 1
      BY <1>2, <2>1, <2>11
    <2>3. /\ P <= Q /\ \A n \in 1..P : size2[n] = packets[n]
          /\ pn[L + 1] = N /\ pi[L + 1] = I
      BY <1>2, <1>7, <2>1, <2>11
    <2>4. Grows(L, P, packets, pn, pi, Q, size2, N, I, m)
      BY <1>2, <1>6, <2>1, <2>2, <2>3, RunGrows
    <2> QED BY <2>1, <2>11, <2>4
  <1>8. PICK qn, qi \in [1..(L + 1 + 1) -> Nat] :
          /\ Run(qn, qi, packets', L + 1)
          /\ qn[1] = pn[1] /\ qi[1] = pi[1]
          /\ \A j \in 1..L : qn[j] = pn[j] /\ qi[j] = pi[j]
          /\ \A j \in 1..1 : qn[L + j] = P + 1 /\ qi[L + j] = 0 + (j - 1)
          /\ qn[L + 1 + 1] = IF 0 + 1 <= packets'[P + 1] THEN P + 1 ELSE P + 1 + 1
          /\ qi[L + 1 + 1] = IF 0 + 1 <= packets'[P + 1] THEN 0 + 1 ELSE 0
    BY <1>17 DEF Grows
  <1>9. Front(qn, qi)'
    BY <1>4, <1>6, <1>8 DEF Front, ReadsInside
  <1>10. Back(qn, qi)'
    BY <1>2, <1>3, <1>4, <1>5, <1>8 DEF Back
  <1>11. Contents(qn, qi)'
    <2>1. ASSUME NEW j \in 1..L PROVE stream'[j] = Element(qn[j], qi[j])'
      <3>1. qn[j] \in 1..P /\ qn[j] = pn[j] /\ qi[j] = pi[j]
        BY <1>2, <1>6, <1>8 DEF Run
      <3> QED BY <1>1, <1>2, <1>3, <1>6, <3>1 DEF Contents, Element, TheLength, Byte
    <2>2. stream'[L + 1] = Element(qn[L + 1], qi[L + 1])'
      BY <1>2, <1>3, <1>8 DEF Element
    <2>3. \A j \in 1..(L + 1) : j \in 1..L \/ j = L + 1
      OBVIOUS
    <2> QED BY <1>3, <2>1, <2>2, <2>3 DEF Contents
  <1>12. Lined'
    BY <1>3, <1>8, <1>9, <1>10, <1>11 DEF Lined
  <1>13. Faithful'
    <2>1. \A n \in 1..P : Payload(n)' = Payload(n)
      BY <1>2 DEF Payload
    <2>2. R <= P /\ \A n \in 1..R : received'[n] = Payload(n)'
      BY <1>0, <1>1, <1>4, <2>1 DEF Faithful
    <2>3. ReadsInside' => /\ R < P + 1 /\ number' = packets'[R + 1] /\ Len(buffer') < number'
                          /\ buffer' = Prefix(R + 1, Len(buffer'))
      BY <1>0, <1>1, <1>2, <1>4 DEF Faithful, ReadsInside, Prefix, Byte
    <2>4. (~ReadsInside => buffer = <<>>)' /\ rpc # "spin"
      BY <1>0, <1>4 DEF Faithful, ReadsInside
    <2>5. received' = received /\ Len(received') = R /\ Len(packets') = P + 1
      BY <1>1, <1>2, <1>4
    <2> QED BY <1>1, <1>4, <2>2, <2>3, <2>4, <2>5 DEF Faithful
  <1> QED BY <1>5, <1>12, <1>13 DEF Inv, InStep

\* Two sequences in one.
LEMMA Appended ==
  ASSUME NEW S, NEW s \in Seq(S), NEW t \in Seq(S)
  PROVE  /\ s \o t \in Seq(S) /\ Len(s \o t) = Len(s) + Len(t)
         /\ \A j \in 1..Len(s) : (s \o t)[j] = s[j]
         /\ \A j \in 1..Len(t) : (s \o t)[Len(s) + j] = t[j]
  OBVIOUS

\* More bytes of the packet.
LEMMA WriteInv ==
  ASSUME Inv, NEW k \in 1..MaxLen, WriteBytes(k)
  PROVE  Inv'
  <1> USE FramingAssumption
  <1>0. /\ Types /\ Lined /\ Faithful /\ InPacket /\ spc = "body"
        /\ Len(stream) + k <= Room /\ k \in Nat \ {0}
    BY DEF Inv, InStep, WriteBytes, SenderInv, Over
  <1>1. PICK L \in Nat, P \in Nat \ {0}, R \in Nat, b \in Nat :
          L = Len(stream) /\ P = Len(packets) /\ R = Len(received) /\ b = sbytes
    <2>1. /\ Len(stream) \in Nat /\ Len(packets) \in Nat /\ Len(packets) > 0
          /\ Len(received) \in Nat /\ sbytes \in Nat
      BY <1>0, TypeFacts DEF InPacket
    <2> QED BY <2>1
  <1>2. /\ packets' = packets /\ packets \in [1..P -> Nat] /\ packets # <<>>
        /\ packets[P] \in 0..MaxLen /\ b + k <= packets[P] /\ P \in 1..P
        /\ sbytes' = b + k /\ spc' = IF sbytes' = packets[P] THEN "idle" ELSE "body"
        /\ waits' = waits /\ rpc' = rpc /\ number' = number /\ buffer' = buffer /\ received' = received
    BY <1>0, <1>1, TypeFacts DEF WriteBytes, receiver
  <1>3. /\ stream' \in Seq(ByteType \union LengthType) /\ Len(stream') = L + k
        /\ \A j \in 1..L : stream'[j] = stream[j]
        /\ \A j \in 1..k : stream'[L + j] = Byte(P, b + j)
    <2>1. PICK data : data = SubSeq(Payload(P), b + 1, b + k)
      OBVIOUS
    <2>2. /\ packets \in Seq(0..MaxLen) /\ Payload(P) \in Seq(ByteType) /\ Len(Payload(P)) = packets[P]
          /\ \A i \in 1..packets[P] : Payload(P)[i] = Byte(P, i)
      BY <1>0, <1>1, <1>2, PayloadType DEF Types, TypeOK
    <2>3. data \in Seq(ByteType) /\ Len(data) = k
      BY <1>0, <1>1, <1>2, <2>1, <2>2
    <2>4. \A j \in 1..k : data[j] = Byte(P, b + j)
      <3> SUFFICES ASSUME NEW j \in 1..k PROVE data[j] = Byte(P, b + j)
        OBVIOUS
      <3>1. data[j] = Payload(P)[b + 1 + j - 1] /\ b + 1 + j - 1 = b + j /\ b + j \in 1..packets[P]
        BY <1>0, <1>1, <1>2, <2>1, <2>2
      <3> QED BY <2>2, <3>1
    <2>5. stream' = stream \o data /\ stream \in Seq(ByteType \union LengthType)
      BY <1>0, <1>1, <2>1 DEF WriteBytes, Types
    <2>6. data \in Seq(ByteType \union LengthType)
      BY <2>3
    <2>7. /\ stream \o data \in Seq(ByteType \union LengthType)
          /\ Len(stream \o data) = Len(stream) + Len(data)
          /\ \A j \in 1..Len(stream) : (stream \o data)[j] = stream[j]
          /\ \A j \in 1..Len(data) : (stream \o data)[Len(stream) + j] = data[j]
      BY <2>5, <2>6, Appended
    <2>8. /\ Len(stream') = L + k
          /\ \A j \in 1..L : stream'[j] = stream[j]
          /\ \A j \in 1..k : stream'[L + j] = data[j]
      BY <1>1, <2>3, <2>5, <2>7
    <2> QED BY <2>4, <2>5, <2>7, <2>8
  <1>4. Types' /\ SenderInv' /\ (InPacket' <=> b + k < packets[P])
    <2>1. InPacket' <=> b + k < packets[P]
      BY <1>1, <1>2 DEF InPacket
    <2>2. SenderInv'
      BY <1>0, <1>1, <1>2, <2>1 DEF SenderInv
    <2>3. TypeOK'
      BY <1>0, <1>1, <1>2, <1>3 DEF Types, TypeOK
    <2> QED BY <1>0, <1>2, <1>3, <2>1, <2>2, <2>3 DEF Types
  <1>5. PICK pn, pi \in [1..(L + 1) -> Nat] :
          Front(pn, pi) /\ Back(pn, pi) /\ Contents(pn, pi) /\ Run(pn, pi, packets, L)
    BY <1>0, <1>1 DEF Lined
  <1>6. pn[L + 1] = P /\ pi[L + 1] = b + 1
    BY <1>0, <1>1, <1>5 DEF Back
  <1>7. Grows(L, P, packets, pn, pi, P, packets, P, b + 1, k)
    <2>1. PICK N \in 1..P, I \in Nat, Q \in Nat : N = P /\ I = b + 1 /\ Q = P
      <3>1. P \in 1..P /\ P \in Nat /\ b + 1 \in Nat
        BY <1>1
      <3> QED BY <3>1
    <2>2. I + k <= packets[N] + 1
      BY <1>1, <1>2, <2>1
    <2>3. /\ P <= Q /\ packets \in [1..Q -> Nat] /\ \A n \in 1..P : packets[n] = packets[n]
          /\ pn[L + 1] = N /\ pi[L + 1] = I
      BY <1>1, <1>2, <1>6, <2>1
    <2>4. Grows(L, P, packets, pn, pi, Q, packets, N, I, k)
      BY <1>0, <1>2, <1>5, <2>1, <2>2, <2>3, RunGrows
    <2> QED BY <2>1, <2>4
  <1>8. PICK qn, qi \in [1..(L + k + 1) -> Nat] :
          /\ Run(qn, qi, packets, L + k)
          /\ qn[1] = pn[1] /\ qi[1] = pi[1]
          /\ \A j \in 1..L : qn[j] = pn[j] /\ qi[j] = pi[j]
          /\ \A j \in 1..k : qn[L + j] = P /\ qi[L + j] = (b + 1) + (j - 1)
          /\ qn[L + k + 1] = IF (b + 1) + k <= packets[P] THEN P ELSE P + 1
          /\ qi[L + k + 1] = IF (b + 1) + k <= packets[P] THEN (b + 1) + k ELSE 0
    BY <1>7 DEF Grows
  <1>9. Front(qn, qi)'
    BY <1>2, <1>5, <1>8 DEF Front, ReadsInside
  <1>10. Back(qn, qi)'
    <2>1. (b + 1) + k = (b + k) + 1 /\ ((b + 1) + k <= packets[P] <=> b + k < packets[P])
      BY <1>1, <1>2
    <2>2. IF InPacket' THEN qn[L + k + 1] = P /\ qi[L + k + 1] = sbytes' + 1
          ELSE qn[L + k + 1] = P + 1 /\ qi[L + k + 1] = 0
      BY <1>2, <1>4, <1>8, <2>1
    <2>3. Len(stream') + 1 = L + k + 1 /\ Len(packets') = P
      BY <1>1, <1>2, <1>3
    <2> QED BY <2>2, <2>3 DEF Back
  <1>11. Contents(qn, qi)'
    <2>1. ASSUME NEW j \in 1..L PROVE stream'[j] = Element(qn[j], qi[j])'
      <3>1. qn[j] = pn[j] /\ qi[j] = pi[j]
        BY <1>8
      <3> QED BY <1>1, <1>2, <1>3, <1>5, <3>1 DEF Contents, Element, TheLength, Byte
    <2>2. ASSUME NEW j \in 1..k PROVE stream'[L + j] = Element(qn[L + j], qi[L + j])'
      <3>1. (b + 1) + (j - 1) = b + j /\ b + j # 0
        BY <1>1
      <3> QED BY <1>3, <1>8, <3>1 DEF Element
    <2>3. ASSUME NEW j \in 1..(L + k) PROVE j \in 1..L \/ (j - L \in 1..k /\ L + (j - L) = j)
      BY <1>0, <1>1
    <2>4. \A j \in 1..(L + k) : stream'[j] = Element(qn[j], qi[j])'
      BY <2>1, <2>2, <2>3
    <2> QED BY <1>3, <2>4 DEF Contents
  <1>12. Lined'
    BY <1>2, <1>3, <1>8, <1>9, <1>10, <1>11 DEF Lined
  <1>13. Faithful'
    <2>1. rpc # "spin"
      BY <1>0 DEF Faithful
    <2> QED BY <1>0, <1>2, <2>1 DEF Faithful, ReadsInside, Prefix, Payload, Byte
  <1> QED BY <1>4, <1>12, <1>13 DEF Inv, InStep

LEMMA LeaveInv == Inv /\ Leave => Inv'
  <1> SUFFICES ASSUME Inv, Leave PROVE Inv'
    OBVIOUS
  <1>1. /\ packets' = packets /\ sbytes' = sbytes /\ stream' = stream /\ spc' = "gone" /\ spc # "gone"
        /\ waits' = waits /\ rpc' = rpc /\ number' = number /\ buffer' = buffer /\ received' = received
    BY DEF Leave, receiver
  <1>2. Lined /\ Faithful
    BY <1>1 DEF Inv, InStep, Over
  <1>3. Lined'
    <2>1. PICK pn, pi \in [1..(Len(stream) + 1) -> Nat] :
            Front(pn, pi) /\ Back(pn, pi) /\ Contents(pn, pi) /\ Run(pn, pi, packets, Len(stream))
      BY <1>2 DEF Lined
    <2>2. Front(pn, pi)' /\ Back(pn, pi)'
      BY <1>1, <2>1 DEF Front, Back, InPacket, ReadsInside
    <2>3. Contents(pn, pi)'
      BY <1>1, <2>1 DEF Contents, Element, TheLength, Byte
    <2> QED BY <1>1, <2>1, <2>2, <2>3 DEF Lined
  <1>4. Faithful'
    BY <1>1, <1>2 DEF Faithful, ReadsInside, Prefix, Payload, Byte
  <1> QED BY <1>1, <1>3, <1>4 DEF Inv, InStep, Types, TypeOK, SenderInv, InPacket

\* What is in front when the receiver reads a length.
LEMMA NumberInFront ==
  ASSUME Types, Lined, Faithful, rpc = "len", stream # <<>>
  PROVE  /\ Len(received) + 1 \in 1..Len(packets)
         /\ stream[1] = TheLength(packets[Len(received) + 1])
  <1>1. PICK L \in Nat, P \in Nat, R \in Nat : L = Len(stream) /\ P = Len(packets) /\ R = Len(received)
    BY TypeFacts
  <1>2. PICK pn, pi \in [1..(L + 1) -> Nat] :
          Front(pn, pi) /\ Back(pn, pi) /\ Contents(pn, pi) /\ Run(pn, pi, packets, L)
    BY <1>1 DEF Lined
  <1>3. L > 0 /\ 1 \in 1..L /\ DOMAIN packets = 1..P
    BY <1>1 DEF Types, TypeOK
  <1>4. pn[1] = R + 1 /\ pi[1] = 0
    BY <1>1, <1>2 DEF Front, ReadsInside
  <1>5. pn[1] \in 1..P /\ stream[1] = Element(pn[1], pi[1])
    BY <1>1, <1>2, <1>3 DEF Run, Contents
  <1> QED BY <1>1, <1>4, <1>5 DEF Element

LEMMA Pushed ==
  ASSUME NEW S, NEW s \in Seq(S), NEW e \in S
  PROVE  /\ Append(s, e) \in Seq(S) /\ Len(Append(s, e)) = Len(s) + 1
         /\ \A j \in 1..Len(s) : Append(s, e)[j] = s[j]
         /\ Append(s, e)[Len(s) + 1] = e
  OBVIOUS

\* The length is read.
LEMMA RecvNumberInv == Inv /\ RecvNumber => Inv'
  <1> USE FramingAssumption
  <1> SUFFICES ASSUME Inv, RecvNumber PROVE Inv'
    OBVIOUS
  <1>0. /\ Types /\ Lined /\ Faithful /\ SenderInv
        /\ rpc = "len" /\ stream # <<>> /\ buffer = <<>>
    BY DEF Inv, InStep, RecvNumber, Over, Faithful, ReadsInside
  <1>1. PICK L \in Nat, P \in Nat, R \in Nat : L = Len(stream) /\ P = Len(packets) /\ R = Len(received)
    BY <1>0, TypeFacts
  <1>2. L > 0 /\ 1 \in 1..L /\ Head(stream) = stream[1] /\ packets \in [1..P -> Nat]
    BY <1>0, <1>1, TypeFacts DEF Types
  <1>3. PICK size \in 0..MaxLen :
          R + 1 \in 1..P /\ size = packets[R + 1] /\ stream[1] = TheLength(size)
    BY <1>0, <1>1, NumberInFront, TypeFacts
  <1>4. /\ packets' = packets /\ spc' = spc /\ sbytes' = sbytes /\ waits' = waits /\ number' = size
        /\ stream' = Tail(stream)
        /\ IF size = 0 THEN received' = Append(received, <<>>) /\ rpc' = "len" /\ buffer' = <<>>
           ELSE rpc' = "body" /\ buffer' = <<>> /\ received' = received
    BY <1>0, <1>2, <1>3 DEF RecvNumber, sender, Deliver, TheLength
  <1>5. /\ stream' \in Seq(ByteType \union LengthType) /\ Len(stream') = L - 1
        /\ \A j \in 1..(L - 1) : stream'[j] = stream[j + 1]
    BY <1>0, <1>1, <1>2, <1>4 DEF Types
  <1>6. PICK pn, pi \in [1..(L + 1) -> Nat] :
          Front(pn, pi) /\ Back(pn, pi) /\ Contents(pn, pi) /\ Run(pn, pi, packets, L)
    BY <1>0, <1>1 DEF Lined
  <1>7. pn[1] = R + 1 /\ pi[1] = 0
    BY <1>0, <1>1, <1>6 DEF Front, ReadsInside
  <1>8. Shrinks(L, P, packets, pn, pi, 1)
    <2>1. PICK m \in 1..L : m = 1
      BY <1>2
    <2>2. pi[1] + (m - 1) <= packets[pn[1]]
      BY <1>3, <1>7, <2>1
    <2>3. Shrinks(L, P, packets, pn, pi, m)
      BY <1>2, <1>6, <2>2, RunShrinks
    <2> QED BY <2>1, <2>3
  <1>9. PICK qn, qi \in [1..(L - 1 + 1) -> Nat] :
          /\ Run(qn, qi, packets, L - 1)
          /\ \A j \in 1..(L - 1 + 1) : qn[j] = pn[j + 1] /\ qi[j] = pi[j + 1]
          /\ qn[1] = IF pi[1] + 1 <= packets[pn[1]] THEN pn[1] ELSE pn[1] + 1
          /\ qi[1] = IF pi[1] + 1 <= packets[pn[1]] THEN pi[1] + 1 ELSE 0
    BY <1>8 DEF Shrinks
  <1>10. received \in Seq(Seq(CharType)) /\ <<>> \in Seq(CharType)
    BY <1>0 DEF Types
  <1>11. IF size = 0 THEN /\ received' \in Seq(Seq(CharType)) /\ Len(received') = R + 1
                          /\ received'[R + 1] = <<>> /\ \A n \in 1..R : received'[n] = received[n]
         ELSE received' = received /\ Len(received') = R
    <2>1. CASE size = 0
      <3>1. received' = Append(received, <<>>)
        BY <1>4, <2>1
      <3>2. /\ Append(received, <<>>) \in Seq(Seq(CharType)) /\ Len(Append(received, <<>>)) = R + 1
            /\ \A j \in 1..R : Append(received, <<>>)[j] = received[j]
            /\ Append(received, <<>>)[R + 1] = <<>>
        BY <1>1, <1>10, Pushed
      <3> QED BY <2>1, <3>1, <3>2
    <2>2. CASE size # 0
      BY <1>1, <1>4, <2>2
    <2> QED BY <2>1, <2>2
  <1>12. Front(qn, qi)'
    <2>1. IF size = 0 THEN qn[1] = R + 2 /\ qi[1] = 0 ELSE qn[1] = R + 1 /\ qi[1] = 1
      BY <1>3, <1>7, <1>9
    <2>2. CASE size = 0
      BY <1>1, <1>4, <1>11, <2>1, <2>2 DEF Front, ReadsInside
    <2>3. CASE size # 0
      <3>1. Len(buffer') + 1 = 1 /\ rpc' = "body" /\ Len(received') = R
        BY <1>4, <1>11, <2>3
      <3> QED BY <2>1, <2>3, <3>1 DEF Front, ReadsInside
    <2> QED BY <2>2, <2>3
  <1>13. Back(qn, qi)'
    <2>1. qn[L] = pn[L + 1] /\ qi[L] = pi[L + 1]
      BY <1>2, <1>9
    <2>2. Len(stream') + 1 = L
      BY <1>5
    <2> QED BY <1>1, <1>4, <1>6, <2>1, <2>2 DEF Back, InPacket
  <1>14. Contents(qn, qi)'
    <2>1. ASSUME NEW j \in 1..(L - 1) PROVE stream'[j] = Element(qn[j], qi[j])'
      <3>1. j + 1 \in 1..L /\ j \in 1..(L - 1 + 1)
        OBVIOUS
      <3>2. stream'[j] = stream[j + 1] /\ qn[j] = pn[j + 1] /\ qi[j] = pi[j + 1]
        BY <1>5, <1>9, <3>1
      <3> QED BY <1>1, <1>4, <1>6, <3>1, <3>2 DEF Contents, Element, TheLength, Byte
    <2> QED BY <1>5, <2>1 DEF Contents
  <1>15. Lined'
    BY <1>4, <1>5, <1>9, <1>12, <1>13, <1>14 DEF Lined
  <1>16. Faithful'
    <2>1. \A n \in 1..P : Payload(n)' = Payload(n)
      BY <1>4 DEF Payload
    <2>2. CASE size = 0
      <3>1. Payload(R + 1) = <<>>
        BY <1>3, <2>2 DEF Payload
      <3>2. \A n \in 1..R : received[n] = Payload(n)
        BY <1>0, <1>1 DEF Faithful
      <3>3. \A n \in 1..(R + 1) : received'[n] = Payload(n)'
        <4> SUFFICES ASSUME NEW n \in 1..(R + 1) PROVE received'[n] = Payload(n)'
          OBVIOUS
        <4>1. Payload(n)' = Payload(n)
          BY <1>3, <2>1
        <4>2. n \in 1..R \/ n = R + 1
          OBVIOUS
        <4> QED BY <1>11, <2>2, <3>1, <3>2, <4>1, <4>2
      <3> QED BY <1>1, <1>3, <1>4, <1>11, <2>2, <3>3 DEF Faithful, ReadsInside
    <2>3. CASE size # 0
      <3>1. \A n \in 1..R : received'[n] = Payload(n)'
        BY <1>0, <1>1, <1>3, <1>11, <2>1, <2>3 DEF Faithful
      <3>2. Len(buffer') = 0 /\ buffer' = Prefix(R + 1, 0)
        BY <1>4, <2>3 DEF Prefix
      <3> QED BY <1>1, <1>3, <1>4, <1>11, <2>3, <3>1, <3>2 DEF Faithful, ReadsInside
    <2> QED BY <2>2, <2>3
  <1>17. Types'
    <2>1. buffer' = <<>> /\ received' \in Seq(Seq(CharType)) /\ rpc' \in {"len", "body"}
      BY <1>4, <1>10, <1>11
    <2>2. TypeOK'
      BY <1>0, <1>1, <1>4, <1>5, <2>1 DEF Types, TypeOK
    <2> QED BY <1>5, <2>1, <2>2 DEF Types
  <1>18. SenderInv'
    BY <1>0, <1>4 DEF SenderInv, InPacket
  <1> QED BY <1>15, <1>16, <1>17, <1>18 DEF Inv, InStep

\* A sequence by its elements.
LEMMA Retyped ==
  ASSUME NEW S, NEW T, NEW s \in Seq(T), \A j \in 1..Len(s) : s[j] \in S
  PROVE  s \in Seq(S)
  OBVIOUS

LEMMA CharsOfBytes ==
  ASSUME NEW s \in Seq(ByteType)
  PROVE  s \in Seq(CharType)
  <1>1. \A j \in 1..Len(s) : s[j] \in CharType
    BY DEF CharType
  <1> QED BY <1>1, Retyped

LEMMA ByElements ==
  ASSUME NEW S, NEW s \in Seq(S), NEW n \in Nat, NEW c \in Nat, Len(s) = c,
         \A j \in 1..c : s[j] = Byte(n, j)
  PROVE  s = Prefix(n, c)
  BY DEF Prefix

\* What is left of a sequence.
LEMMA Rest ==
  ASSUME NEW S, NEW s \in Seq(S), NEW k \in 1..Len(s)
  PROVE  /\ SubSeq(s, 1, k) \in Seq(S) /\ Len(SubSeq(s, 1, k)) = k
         /\ \A j \in 1..k : SubSeq(s, 1, k)[j] = s[j]
         /\ SubSeq(s, k + 1, Len(s)) \in Seq(S) /\ Len(SubSeq(s, k + 1, Len(s))) = Len(s) - k
         /\ \A j \in 1..(Len(s) - k) : SubSeq(s, k + 1, Len(s))[j] = s[j + k]
  OBVIOUS

\* Bytes of the packet are read.
LEMMA ReadInv ==
  ASSUME Inv, NEW k \in 1..MaxLen, ReadBytes(k)
  PROVE  Inv' /\ InStep'
  <1> USE FramingAssumption
  <1>0. /\ Types /\ Lined /\ Faithful /\ SenderInv /\ rpc = "body"
    BY DEF Inv, InStep, ReadBytes, Over
  <1>1. PICK L \in Nat, P \in Nat, R \in Nat, b \in Nat :
          L = Len(stream) /\ P = Len(packets) /\ R = Len(received) /\ b = Len(buffer)
    BY <1>0, TypeFacts
  <1>2. PICK size \in 0..MaxLen :
          /\ R + 1 \in 1..P /\ size = packets[R + 1] /\ number = size /\ buffer = Prefix(R + 1, b)
          /\ packets \in [1..P -> Nat] /\ b < size /\ b + k <= size /\ k \in 1..L
          /\ size \in Nat /\ k \in Nat /\ R + 1 \in Nat
    <2>1. /\ R < P /\ number = packets[R + 1] /\ buffer = Prefix(R + 1, b) /\ b < number
      BY <1>0, <1>1 DEF Faithful, ReadsInside
    <2>2. R + 1 \in 1..P /\ packets[R + 1] \in 0..MaxLen /\ packets \in [1..P -> Nat]
      BY <1>0, <1>1, <2>1, TypeFacts
    <2>3. k <= L /\ b + k <= number
      BY <1>1 DEF ReadBytes
    <2> QED BY <1>1, <2>1, <2>2, <2>3
  <1>3. PICK pn, pi \in [1..(L + 1) -> Nat] :
          Front(pn, pi) /\ Back(pn, pi) /\ Contents(pn, pi) /\ Run(pn, pi, packets, L)
    BY <1>0, <1>1 DEF Lined
  <1>4. pn[1] = R + 1 /\ pi[1] = b + 1
    BY <1>0, <1>1, <1>3 DEF Front, ReadsInside
  <1>20. packets[pn[1]] = size
    BY <1>2, <1>4
  <1>21. b \in Nat /\ k \in Nat /\ size \in Nat /\ L \in Nat /\ b + k <= size /\ 0 < k /\ k <= L
    BY <1>1, <1>2
  <1>5. Shrinks(L, P, packets, pn, pi, k)
    <2>1. pi[1] + (k - 1) <= packets[pn[1]] /\ L > 0
      <3>1. (b + 1) + (k - 1) = b + k
        BY <1>21
      <3>2. pi[1] + (k - 1) = b + k
        BY <1>4, <3>1
      <3> QED BY <1>20, <1>21, <3>2
    <2> QED BY <1>2, <1>3, <2>1, RunShrinks
  <1>6. \A j \in 1..k : pn[j] = R + 1 /\ pi[j] = (b + 1) + (j - 1)
    BY <1>4, <1>5 DEF Shrinks
  <1>7. PICK qn, qi \in [1..(L - k + 1) -> Nat] :
          /\ Run(qn, qi, packets, L - k)
          /\ \A j \in 1..(L - k + 1) : qn[j] = pn[j + k] /\ qi[j] = pi[j + k]
          /\ qn[1] = IF pi[1] + k <= packets[pn[1]] THEN pn[1] ELSE pn[1] + 1
          /\ qi[1] = IF pi[1] + k <= packets[pn[1]] THEN pi[1] + k ELSE 0
    BY <1>5 DEF Shrinks
  <1>8. \A j \in 1..k : stream[j] = Byte(R + 1, b + j)
    <2> SUFFICES ASSUME NEW j \in 1..k PROVE stream[j] = Byte(R + 1, b + j)
      OBVIOUS
    <2>1. j \in 1..L /\ (b + 1) + (j - 1) = b + j /\ b + j # 0
      BY <1>1, <1>2
    <2>2. stream[j] = Element(R + 1, b + j)
      BY <1>1, <1>3, <1>6, <2>1 DEF Contents
    <2> QED BY <2>1, <2>2 DEF Element
  <1>9. PICK data \in Seq(ByteType) :
          data = buffer \o SubSeq(stream, 1, k) /\ Len(data) = b + k /\ data = Prefix(R + 1, b + k)
    <2>1. PICK front : front = SubSeq(stream, 1, k)
      OBVIOUS
    <2>2. front \in Seq(ByteType \union LengthType) /\ Len(front) = k /\ \A j \in 1..k : front[j] = stream[j]
      BY <1>0, <1>1, <1>2, <2>1, Rest DEF Types
    <2>3. \A j \in 1..k : front[j] = Byte(R + 1, b + j) /\ front[j] \in ByteType
      <3> SUFFICES ASSUME NEW j \in 1..k PROVE front[j] = Byte(R + 1, b + j) /\ front[j] \in ByteType
        OBVIOUS
      <3>1. R + 1 \in Nat /\ b + j \in Nat
        BY <1>1, <1>2
      <3>2. front[j] = Byte(R + 1, b + j)
        BY <1>8, <2>2
      <3>3. Byte(R + 1, b + j) \in ByteType
        BY <3>1, ByteIsTyped
      <3> QED BY <3>2, <3>3
    <2>4. front \in Seq(ByteType)
      BY <2>2, <2>3, Retyped
    <2>5. buffer \in Seq(ByteType)
      BY <1>0 DEF Types
    <2>6. /\ buffer \o front \in Seq(ByteType) /\ Len(buffer \o front) = b + k
          /\ \A j \in 1..b : (buffer \o front)[j] = buffer[j]
          /\ \A j \in 1..k : (buffer \o front)[b + j] = front[j]
      <3>1. /\ buffer \o front \in Seq(ByteType) /\ Len(buffer \o front) = Len(buffer) + Len(front)
            /\ \A j \in 1..Len(buffer) : (buffer \o front)[j] = buffer[j]
            /\ \A j \in 1..Len(front) : (buffer \o front)[Len(buffer) + j] = front[j]
        BY <2>4, <2>5, Appended
      <3> QED BY <1>1, <2>2, <3>1
    <2>7. \A j \in 1..(b + k) : (buffer \o front)[j] = Byte(R + 1, j)
      <3> SUFFICES ASSUME NEW j \in 1..(b + k) PROVE (buffer \o front)[j] = Byte(R + 1, j)
        OBVIOUS
      <3>1. CASE j <= b
        <4>1. j \in 1..b
          BY <1>21, <3>1
        <4> QED BY <1>2, <2>6, <4>1 DEF Prefix
      <3>2. CASE j > b
        <4>1. j - b \in 1..k /\ b + (j - b) = j
          BY <1>21, <3>2
        <4> QED BY <2>3, <2>6, <4>1
      <3>3. j <= b \/ j > b
        BY <1>21
      <3> QED BY <3>1, <3>2, <3>3
    <2>8. b + k \in Nat
      BY <1>21
    <2>9. buffer \o front = Prefix(R + 1, b + k)
      <3>1. PICK s \in Seq(ByteType), n \in Nat, c \in Nat :
              s = buffer \o front /\ n = R + 1 /\ c = b + k
        BY <1>2, <2>6, <2>8
      <3>2. Len(s) = c /\ \A j \in 1..c : s[j] = Byte(n, j)
        BY <2>6, <2>7, <3>1
      <3>3. s = Prefix(n, c)
        BY <3>2, ByElements
      <3> QED BY <3>1, <3>3
    <2> QED BY <2>1, <2>6, <2>9
  <1>10. /\ packets' = packets /\ spc' = spc /\ sbytes' = sbytes /\ waits' = waits /\ number' = number
         /\ stream' = SubSeq(stream, k + 1, L)
         /\ IF b + k = size THEN received' = Append(received, data) /\ rpc' = "len" /\ buffer' = <<>>
            ELSE buffer' = data /\ rpc' = rpc /\ received' = received
    BY <1>1, <1>2, <1>9 DEF ReadBytes, sender, Deliver
  <1>11. /\ stream' \in Seq(ByteType \union LengthType) /\ Len(stream') = L - k
         /\ \A j \in 1..(L - k) : stream'[j] = stream[j + k]
    <2>1. stream \in Seq(ByteType \union LengthType) /\ k \in 1..Len(stream)
      BY <1>0, <1>1, <1>2 DEF Types
    <2>2. /\ SubSeq(stream, k + 1, Len(stream)) \in Seq(ByteType \union LengthType)
          /\ Len(SubSeq(stream, k + 1, Len(stream))) = Len(stream) - k
          /\ \A j \in 1..(Len(stream) - k) : SubSeq(stream, k + 1, Len(stream))[j] = stream[j + k]
      BY <2>1, Rest
    <2> QED BY <1>1, <1>10, <2>2
  <1>12. IF b + k = size
         THEN /\ received' \in Seq(Seq(CharType)) /\ Len(received') = R + 1
              /\ received'[R + 1] = data /\ \A n \in 1..R : received'[n] = received[n]
         ELSE received' = received /\ Len(received') = R
    <2>1. CASE b + k = size
      <3>1. received' = Append(received, data) /\ received \in Seq(Seq(CharType))
        BY <1>0, <1>10, <2>1 DEF Types
      <3>3. data \in Seq(CharType)
        BY CharsOfBytes
      <3>2. /\ Append(received, data) \in Seq(Seq(CharType)) /\ Len(Append(received, data)) = R + 1
            /\ \A j \in 1..R : Append(received, data)[j] = received[j]
            /\ Append(received, data)[R + 1] = data
        BY <1>1, <3>1, <3>3, Pushed
      <3> QED BY <2>1, <3>1, <3>2
    <2>2. CASE b + k # size
      BY <1>1, <1>10, <2>2
    <2> QED BY <2>1, <2>2
  <1>13. Front(qn, qi)'
    <2>1. CASE b + k = size
      <3>1. qn[1] = (R + 1) + 1 /\ qi[1] = 0
        <4>1. ~((b + 1) + k <= size)
          BY <1>21, <2>1
        <4> QED BY <1>4, <1>7, <1>20, <4>1
      <3> QED BY <1>10, <1>12, <2>1, <3>1 DEF Front, ReadsInside
    <2>2. CASE b + k # size
      <3>1. qn[1] = R + 1 /\ qi[1] = (b + k) + 1
        <4>1. (b + 1) + k <= size /\ (b + 1) + k = (b + k) + 1
          BY <1>21, <2>2
        <4> QED BY <1>4, <1>7, <1>20, <4>1
      <3>2. Len(buffer') = b + k /\ rpc' = "body" /\ Len(received') = R
        BY <1>0, <1>9, <1>10, <1>12, <2>2
      <3> QED BY <3>1, <3>2 DEF Front, ReadsInside
    <2> QED BY <2>1, <2>2
  <1>14. Back(qn, qi)'
    <2>1. L - k + 1 \in 1..(L - k + 1) /\ (L - k + 1) + k = L + 1
      BY <1>1, <1>2
    <2>2. qn[L - k + 1] = pn[L + 1] /\ qi[L - k + 1] = pi[L + 1]
      BY <1>7, <2>1
    <2> QED BY <1>1, <1>3, <1>10, <1>11, <2>2 DEF Back, InPacket
  <1>15. Contents(qn, qi)'
    <2>1. ASSUME NEW j \in 1..(L - k) PROVE stream'[j] = Element(qn[j], qi[j])'
      <3>1. j + k \in 1..L /\ j \in 1..(L - k + 1)
        BY <1>1, <1>2
      <3>2. stream'[j] = stream[j + k] /\ qn[j] = pn[j + k] /\ qi[j] = pi[j + k]
        BY <1>7, <1>11, <3>1
      <3> QED BY <1>1, <1>3, <1>10, <3>1, <3>2 DEF Contents, Element, TheLength, Byte
    <2> QED BY <1>11, <2>1 DEF Contents
  <1>16. Lined'
    BY <1>10, <1>11, <1>7, <1>13, <1>14, <1>15 DEF Lined
  <1>17. Faithful'
    <2>1. \A n \in 1..P : Payload(n)' = Payload(n)
      BY <1>10 DEF Payload
    <2>2. CASE b + k = size
      <3>1. Payload(R + 1) = data
        BY <1>2, <1>9, <2>2 DEF Payload, Prefix
      <3>2. \A n \in 1..R : received[n] = Payload(n)
        BY <1>0, <1>1 DEF Faithful
      <3>3. \A n \in 1..(R + 1) : received'[n] = Payload(n)'
        <4> SUFFICES ASSUME NEW n \in 1..(R + 1) PROVE received'[n] = Payload(n)'
          OBVIOUS
        <4>1. Payload(n)' = Payload(n)
          BY <1>2, <2>1
        <4>2. n \in 1..R \/ n = R + 1
          OBVIOUS
        <4> QED BY <1>12, <2>2, <3>1, <3>2, <4>1, <4>2
      <3>4. R + 1 <= P
        BY <1>1, <1>2
      <3> QED BY <1>1, <1>10, <1>12, <2>2, <3>3, <3>4 DEF Faithful, ReadsInside
    <2>3. CASE b + k # size
      <3>1. \A n \in 1..R : received'[n] = Payload(n)'
        BY <1>0, <1>1, <1>2, <1>12, <2>1, <2>3 DEF Faithful
      <3>2. Len(buffer') = b + k /\ buffer' = Prefix(R + 1, b + k) /\ b + k < size
        <4>1. b + k # size /\ b + k <= size /\ b + k \in Nat
          BY <1>21, <2>3
        <4>2. buffer' = data
          BY <1>10, <2>3
        <4>3. b + k < size
          BY <1>21, <4>1
        <4> QED BY <1>9, <4>2, <4>3
      <3> QED BY <1>0, <1>1, <1>2, <1>10, <1>12, <2>3, <3>1, <3>2 DEF Faithful, ReadsInside
    <2> QED BY <2>2, <2>3
  <1>18. Types'
    <2>1. /\ received' \in Seq(Seq(CharType)) /\ rpc' \in {"len", "body"}
          /\ buffer' \in Seq(ByteType) /\ Len(buffer') <= size
      <3>1. received \in Seq(Seq(CharType)) /\ <<>> \in Seq(ByteType) /\ Len(<<>>) <= size
        BY <1>0 DEF Types
      <3> QED BY <1>0, <1>1, <1>2, <1>9, <1>10, <1>12, <3>1
    <2>2. Len(stream') <= Room
      <3>1. L <= Room
        BY <1>0, <1>1 DEF Types, TypeOK
      <3> QED BY <1>11, <1>21, <3>1
    <2>3. TypeOK'
      BY <1>0, <1>2, <1>10, <2>1, <2>2 DEF Types, TypeOK
    <2> QED BY <1>11, <2>1, <2>3 DEF Types
  <1>19. SenderInv'
    BY <1>0, <1>10 DEF SenderInv, InPacket
  <1> QED BY <1>16, <1>17, <1>18, <1>19 DEF Inv, InStep

\* With nothing on its way the receiver is where the sender is.
LEMMA AllRead ==
  ASSUME Types, Lined, stream = <<>>
  PROVE  IF ReadsInside THEN InPacket /\ Len(packets) = Len(received) + 1 /\ sbytes = Len(buffer)
         ELSE ~InPacket /\ Len(packets) = Len(received)
  <1>1. PICK pn, pi \in [1..(Len(stream) + 1) -> Nat] : Front(pn, pi) /\ Back(pn, pi)
    BY DEF Lined
  <1>2. Len(stream) + 1 = 1
    OBVIOUS
  <1>3. /\ Len(packets) \in Nat /\ Len(received) \in Nat /\ Len(buffer) \in Nat /\ sbytes \in Nat
    BY TypeFacts
  <1> QED BY <1>1, <1>2, <1>3 DEF Front, Back

\* What lrecv_response hands on is a text of the announced length.
LEMMA PaddedType ==
  ASSUME Types
  PROVE  Padded \in Seq(CharType)
  <1>1. number \in Nat /\ buffer \in Seq(ByteType)
    BY FramingAssumption DEF Types, TypeOK
  <1>2. ASSUME NEW i \in 1..number
        PROVE  (IF i <= Len(buffer) THEN buffer[i] ELSE Missing) \in CharType
    <2>1. CASE i <= Len(buffer)
      <3>1. i \in 1..Len(buffer)
        BY <1>1, <2>1
      <3>2. buffer[i] \in ByteType
        BY <1>1, <3>1
      <3> QED BY <2>1, <3>2 DEF CharType
    <2>2. CASE ~(i <= Len(buffer))
      BY <2>2 DEF CharType
    <2> QED BY <2>1, <2>2
  <1>3. Padded \in [1..number -> CharType]
    BY <1>2 DEF Padded
  <1> QED BY <1>1, <1>3

\* A caller that does not wait is handed something after the end.
LEMMA DeliverOver ==
  ASSUME Types, SenderInv, NEW data \in Seq(CharType), Deliver(data), ~waits,
         UNCHANGED <<waits, number, sender, stream>>, AtEnd,
         Len(received) + 1 >= Len(packets)
  PROVE  Inv'
  <1> USE FramingAssumption
  <1>1. /\ received' = Append(received, data) /\ rpc' = "len" /\ buffer' = <<>>
        /\ waits' = waits /\ number' = number /\ packets' = packets /\ spc' = spc
        /\ sbytes' = sbytes /\ stream' = stream
    BY DEF Deliver, sender
  <1>2. received' \in Seq(Seq(CharType)) /\ Len(received') = Len(received) + 1
    BY <1>1, Pushed DEF Types
  <1>3. Types'
    BY <1>1, <1>2 DEF Types, TypeOK
  <1>4. SenderInv'
    BY <1>1 DEF SenderInv, InPacket
  <1>5. Over'
    BY <1>1, <1>2 DEF Over, AtEnd
  <1> QED BY <1>3, <1>4, <1>5 DEF Inv

\* A reader that waits finds the end and stops, or spins.
LEMMA StopInv ==
  ASSUME Types, SenderInv, Lined, Faithful, AtEnd,
         UNCHANGED <<waits, number, sender, stream, buffer, received>>,
         \/ rpc = "len" /\ rpc' = "end"
         \/ rpc = "body" /\ rpc' = "spin"
  PROVE  Inv'
  <1>1. /\ received' = received /\ buffer' = buffer
        /\ waits' = waits /\ number' = number /\ packets' = packets /\ spc' = spc
        /\ sbytes' = sbytes /\ stream' = stream /\ ReadsInside' = ReadsInside
    BY DEF sender, ReadsInside
  <1>2. Types' /\ SenderInv'
    BY <1>1 DEF Types, TypeOK, SenderInv, InPacket
  <1>3. Lined'
    <2>1. PICK pn, pi \in [1..(Len(stream) + 1) -> Nat] :
            Front(pn, pi) /\ Back(pn, pi) /\ Contents(pn, pi) /\ Run(pn, pi, packets, Len(stream))
      BY DEF Lined
    <2>2. Front(pn, pi)' /\ Back(pn, pi)'
      BY <1>1, <2>1 DEF Front, Back, InPacket
    <2>3. Contents(pn, pi)'
      BY <1>1, <2>1 DEF Contents, Element, TheLength, Byte
    <2> QED BY <1>1, <2>1, <2>2, <2>3 DEF Lined
  <1>4. Faithful'
    BY <1>1 DEF Faithful, Prefix, Payload, Byte, AtEnd
  <1> QED BY <1>2, <1>3, <1>4 DEF Inv, InStep

LEMMA EndAtLengthInv == Inv /\ EndAtLength => Inv'
  <1> SUFFICES ASSUME Inv, EndAtLength PROVE Inv'
    OBVIOUS
  <1>1. Types /\ SenderInv /\ rpc = "len" /\ AtEnd /\ UNCHANGED <<waits, number, sender, stream>>
    BY DEF Inv, EndAtLength
  <1>2. CASE waits
    <2>1. Lined /\ Faithful /\ rpc' = "end" /\ UNCHANGED <<buffer, received>>
      BY <1>2 DEF EndAtLength, Inv, InStep, Over
    <2> QED BY <1>1, <2>1, StopInv
  <1>3. CASE ~waits
    <2>1. Deliver(<<>>) /\ <<>> \in Seq(CharType)
      BY <1>3 DEF EndAtLength
    <2>2. Len(received) + 1 >= Len(packets)
      <3>1. CASE InStep
        BY <1>1, <3>1, AllRead, TypeFacts DEF InStep, AtEnd, ReadsInside
      <3>2. CASE Over
        BY <1>1, <3>2, TypeFacts DEF Over
      <3> QED BY <3>1, <3>2 DEF Inv
    <2> QED BY <1>1, <1>3, <2>1, <2>2, DeliverOver
  <1> QED BY <1>2, <1>3

LEMMA EndInPacketInv == Inv /\ EndInPacket => Inv'
  <1> SUFFICES ASSUME Inv, EndInPacket PROVE Inv'
    OBVIOUS
  <1>1. /\ Types /\ SenderInv /\ rpc = "body" /\ AtEnd /\ UNCHANGED <<waits, number, sender, stream>>
        /\ Lined /\ Faithful
    BY DEF Inv, EndInPacket, InStep, Over
  <1>2. CASE waits
    <2>1. rpc' = "spin" /\ UNCHANGED <<buffer, received>>
      BY <1>2 DEF EndInPacket
    <2> QED BY <1>1, <2>1, StopInv
  <1>3. CASE ~waits
    <2>1. Deliver(Padded) /\ Padded \in Seq(CharType)
      BY <1>1, <1>3, PaddedType DEF EndInPacket
    <2>2. Len(received) + 1 >= Len(packets)
      BY <1>1, AllRead, TypeFacts DEF AtEnd, ReadsInside
    <2> QED BY <1>1, <1>3, <2>1, <2>2, DeliverOver
  <1> QED BY <1>2, <1>3

LEMMA StutterInv == Inv /\ UNCHANGED vars => Inv'
  <1> SUFFICES ASSUME Inv, UNCHANGED vars PROVE Inv'
    OBVIOUS
  <1>1. /\ packets' = packets /\ sbytes' = sbytes /\ stream' = stream /\ spc' = spc
        /\ waits' = waits /\ rpc' = rpc /\ number' = number /\ buffer' = buffer /\ received' = received
    BY DEF vars, sender, receiver
  <1>2. Lined => Lined'
    <2> SUFFICES ASSUME Lined PROVE Lined'
      OBVIOUS
    <2>1. PICK pn, pi \in [1..(Len(stream) + 1) -> Nat] :
            Front(pn, pi) /\ Back(pn, pi) /\ Contents(pn, pi) /\ Run(pn, pi, packets, Len(stream))
      BY DEF Lined
    <2>2. Front(pn, pi)' /\ Back(pn, pi)'
      BY <1>1, <2>1 DEF Front, Back, InPacket, ReadsInside
    <2>3. Contents(pn, pi)'
      BY <1>1, <2>1 DEF Contents, Element, TheLength, Byte
    <2> QED BY <1>1, <2>1, <2>2, <2>3 DEF Lined
  <1>3. Faithful => Faithful'
    BY <1>1 DEF Faithful, ReadsInside, Prefix, Payload, Byte
  <1> QED BY <1>1, <1>2, <1>3 DEF Inv, InStep, Over, Types, TypeOK, SenderInv, InPacket

LEMMA NextInv == Inv /\ [Next]_vars => Inv'
  <1> SUFFICES ASSUME Inv, [Next]_vars PROVE Inv'
    OBVIOUS
  <1>1. CASE UNCHANGED vars
    BY <1>1, StutterInv
  <1>2. ASSUME NEW len \in 0..MaxLen, SendNumber(len) PROVE Inv'
    BY <1>2, SendInv
  <1>3. ASSUME NEW k \in 1..MaxLen, WriteBytes(k) PROVE Inv'
    BY <1>3, WriteInv
  <1>4. ASSUME NEW k \in 1..MaxLen, ReadBytes(k) PROVE Inv'
    BY <1>4, ReadInv
  <1>5. CASE Leave
    BY <1>5, LeaveInv
  <1>6. CASE RecvNumber
    BY <1>6, RecvNumberInv
  <1>7. CASE EndAtLength
    BY <1>7, EndAtLengthInv
  <1>8. CASE EndInPacket
    BY <1>8, EndInPacketInv
  <1> QED BY <1>1, <1>2, <1>3, <1>4, <1>5, <1>6, <1>7, <1>8 DEF Next

LEMMA Invariance == Spec => []Inv
  <1> QED BY InitInv, NextInv, PTL DEF Spec

\* Type correctness of the packet loops (send_data, recv_file, recv_data,
\* lrecv_response).
THEOREM FramingTypeCorrect == Spec => []TypeOK
  <1>1. Inv => TypeOK
    BY DEF Inv, Types
  <1> QED BY <1>1, Invariance, PTL

\* recv_data spins only if its client has left inside the packet: whatever the
\* socket does to a packet that is sent to its end, the server reads it to its end.
THEOREM SpinNeedsCut == Spec => []SpinsOnlyWhenCut
  <1>1. Inv => SpinsOnlyWhenCut
    <2> SUFFICES ASSUME Inv, rpc = "spin" PROVE spc = "gone" /\ sbytes < packets[Len(packets)]
      BY DEF SpinsOnlyWhenCut
    <2>1. Types /\ Lined /\ Faithful
      BY DEF Inv, InStep, Over
    <2>2. stream = <<>> /\ spc = "gone" /\ ReadsInside
      BY <2>1 DEF Faithful, ReadsInside
    <2> QED BY <2>1, <2>2, AllRead DEF InPacket
  <1> QED BY <1>1, Invariance, PTL

-----------------------------------------------------------------------------
(* The refinement.                                                         *)

LEMMA SentIsTyped ==
  ASSUME Types
  PROVE  /\ Sent \in Seq(Seq(ByteType)) /\ Len(Sent) = Len(packets)
         /\ \A n \in 1..Len(packets) : Sent[n] = Payload(n)
  <1>1. Len(packets) \in Nat /\ packets \in Seq(0..MaxLen)
    BY TypeFacts DEF Types, TypeOK
  <1>2. \A n \in 1..Len(packets) : Payload(n) \in Seq(ByteType)
    BY <1>1, PayloadType
  <1> QED BY <1>1, <1>2 DEF Sent

LEMMA SendImplements ==
  ASSUME Inv, Inv', NEW len \in 0..MaxLen, SendNumber(len)
  PROVE  Channel!Send
  <1> USE FramingAssumption
  <1>1. Types /\ Types' /\ Len(packets) \in Nat /\ packets \in Seq(0..MaxLen)
    BY TypeFacts DEF Inv, Types, TypeOK
  <1>2. /\ packets' = Append(packets, len) /\ spc = "idle" /\ spc' # "gone" /\ received' = received
        /\ Len(packets) < MaxPackets
    BY DEF SendNumber, receiver
  <1>3. PICK P \in Nat : P = Len(packets)
    BY <1>1
  <1>4. Len(packets') = P + 1 /\ packets'[P + 1] = len /\ \A n \in 1..P : packets'[n] = packets[n]
    BY <1>1, <1>2, <1>3
  <1>5. Payload(P + 1)' = [i \in 1..len |-> Byte(P + 1, i)]
    BY <1>4 DEF Payload, Byte
  <1>6. Payload(P + 1)' \in Texts
    <2>1. P + 1 \in 1..MaxPackets
      BY <1>2, <1>3
    <2>2. \E n \in 1..MaxPackets, size \in 0..MaxLen :
            Payload(P + 1)' = [i \in 1..size |-> Byte(n, i)]
      BY <1>5, <2>1
    <2> QED BY <2>2 DEF Texts
  <1>7. Sent' = Append(Sent, Payload(P + 1)')
    <2>1. \A n \in 1..P : Payload(n)' = Payload(n)
      BY <1>4 DEF Payload, Byte
    <2>2. /\ Sent \in Seq(Seq(ByteType)) /\ Len(Sent) = P /\ \A n \in 1..P : Sent[n] = Payload(n)
      BY <1>1, <1>3, SentIsTyped
    <2>3. /\ Sent' \in Seq(Seq(ByteType)) /\ Len(Sent') = P + 1
          /\ \A n \in 1..(P + 1) : Sent'[n] = Payload(n)'
      <3>1. (/\ Sent \in Seq(Seq(ByteType)) /\ Len(Sent) = Len(packets)
             /\ \A n \in 1..Len(packets) : Sent[n] = Payload(n))'
        BY <1>1, SentIsTyped, PTL
      <3> QED BY <1>4, <3>1
    <2>4. PICK data : data = Payload(P + 1)'
      OBVIOUS
    <2>5. data \in Seq(ByteType)
      BY <2>3, <2>4
    <2>6. /\ Append(Sent, data) \in Seq(Seq(ByteType)) /\ Len(Append(Sent, data)) = P + 1
          /\ \A n \in 1..P : Append(Sent, data)[n] = Sent[n]
          /\ Append(Sent, data)[P + 1] = data
      BY <2>2, <2>5, Pushed
    <2>7. \A n \in 1..(P + 1) : Sent'[n] = Append(Sent, data)[n]
      <3> SUFFICES ASSUME NEW n \in 1..(P + 1) PROVE Sent'[n] = Append(Sent, data)[n]
        OBVIOUS
      <3>1. CASE n \in 1..P
        <4>1. Sent'[n] = Payload(n)' /\ Payload(n)' = Payload(n) /\ Sent[n] = Payload(n)
          BY <2>1, <2>2, <2>3, <3>1
        <4> QED BY <2>6, <3>1, <4>1
      <3>2. CASE n = P + 1
        BY <2>3, <2>4, <2>6, <3>2
      <3>3. n \in 1..P \/ n = P + 1
        OBVIOUS
      <3> QED BY <3>1, <3>2, <3>3
    <2> QED BY <2>3, <2>4, <2>6, <2>7
  <1>8. spc # "gone" /\ (spc' = "gone") = (spc = "gone")
    BY <1>2
  <1>9. \E p \in Texts : Sent' = Append(Sent, p)
    BY <1>6, <1>7
  <1>10. ~(spc = "gone") /\ UNCHANGED <<received, spc = "gone">>
    BY <1>2, <1>8
  <1> QED BY <1>9, <1>10 DEF Channel!Send

LEMMA ReceiveImplements ==
  ASSUME Types, Deliver(Payload(Len(received) + 1)), Len(received) + 1 <= Len(packets), UNCHANGED sender
  PROVE  Channel!Receive
  <1>1. PICK R \in Nat : R = Len(received) /\ R + 1 \in 1..Len(packets)
    BY TypeFacts
  <1>2. Sent[R + 1] = Payload(R + 1) /\ Len(Sent) = Len(packets)
    BY <1>1, SentIsTyped
  <1>3. packets' = packets /\ spc' = spc /\ received' = Append(received, Payload(R + 1))
    BY <1>1 DEF sender, Deliver
  <1>4. Sent' = Sent
    BY <1>3 DEF Sent, Payload, Byte
  <1>5. Channel!Next1 = R + 1
    BY <1>1 DEF Channel!Next1
  <1> QED BY <1>1, <1>2, <1>3, <1>4, <1>5 DEF Channel!Receive

\* After the end: an empty packet, or the front of the last in its full length.
LEMMA ReceiveNothingImplements ==
  ASSUME Inv, Deliver(<<>>), AtEnd, UNCHANGED sender, Len(received) >= Len(packets)
  PROVE  Channel!ReceiveNothing
  <1>1. Types
    BY DEF Inv
  <1>2. PICK R \in Nat, P \in Nat : R = Len(received) /\ P = Len(packets) /\ R >= P
    BY <1>1, TypeFacts
  <1>3. Len(Sent) = P
    BY <1>1, <1>2, SentIsTyped
  <1>4. packets' = packets /\ spc' = spc /\ received' = Append(received, <<>>) /\ spc = "gone"
    BY DEF sender, Deliver, AtEnd
  <1>5. Sent' = Sent
    BY <1>4 DEF Sent, Payload, Byte
  <1>6. Channel!Next1 = R + 1
    BY <1>2 DEF Channel!Next1
  <1>7. R + 1 > P
    BY <1>2
  <1> QED BY <1>3, <1>4, <1>5, <1>6, <1>7 DEF Channel!ReceiveNothing

LEMMA ReceiveCutImplements ==
  ASSUME Inv, Deliver(Padded), AtEnd, UNCHANGED sender, Len(received) + 1 = Len(packets),
         buffer = Prefix(Len(packets), Len(buffer)),
         number = packets[Len(packets)], Len(buffer) < number
  PROVE  Channel!ReceiveCut
  <1>1. Types /\ packets \in Seq(0..MaxLen)
    BY DEF Inv, Types, TypeOK
  <1>2. PICK R \in Nat, P \in Nat, b \in Nat, size \in Nat :
          R = Len(received) /\ P = Len(packets) /\ b = Len(buffer) /\ size = number
    <2>1. Len(received) \in Nat /\ Len(packets) \in Nat /\ Len(buffer) \in Nat /\ number \in Nat
      BY <1>1, TypeFacts
    <2> QED BY <2>1
  <1>3. R + 1 = P /\ P \in 1..Len(packets) /\ size = packets[P] /\ b < size
    BY <1>2
  <1>4. packets' = packets /\ spc' = spc /\ received' = Append(received, Padded) /\ spc = "gone"
    BY DEF sender, Deliver, AtEnd
  <1>5. Sent' = Sent
    BY <1>4 DEF Sent, Payload, Byte
  <1>6. Channel!Next1 = P
    BY <1>2, <1>3 DEF Channel!Next1
  <1>7. /\ Len(Sent) = P /\ Sent[P] = Payload(P) /\ Len(Payload(P)) = size
        /\ \A i \in 1..size : Payload(P)[i] = Byte(P, i)
    BY <1>1, <1>2, <1>3, SentIsTyped, PayloadType
  <1>8. Padded = Channel!Cut(Payload(P), b)
    <2>1. \A i \in 1..size : i <= b => buffer[i] = Payload(P)[i]
      <3> SUFFICES ASSUME NEW i \in 1..size, i <= b PROVE buffer[i] = Payload(P)[i]
        OBVIOUS
      <3>1. i \in 1..b /\ buffer = Prefix(P, b)
        BY <1>2
      <3> QED BY <1>7, <3>1 DEF Prefix
    <2> QED BY <1>2, <1>7, <2>1 DEF Padded, Channel!Cut
  <1>9. b \in 0..size - 1
    BY <1>3
  <1>10. \E k \in 0..Len(Sent[P]) - 1 : received' = Append(received, Channel!Cut(Sent[P], k))
    BY <1>4, <1>7, <1>8, <1>9
  <1>11. spc = "gone" /\ UNCHANGED <<Sent, spc = "gone">>
    BY <1>4, <1>5
  <1> QED BY <1>6, <1>7, <1>10, <1>11 DEF Channel!ReceiveCut

LEMMA StutterImplements ==
  ASSUME packets' = packets, received' = received, (spc' = "gone") <=> (spc = "gone")
  PROVE  UNCHANGED Channel!vars
  <1>1. Sent' = Sent
    BY DEF Sent, Payload, Byte
  <1>2. UNCHANGED <<Sent, received, spc = "gone">>
    BY <1>1
  <1> QED BY <1>2 DEF Channel!vars

LEMMA RecvNumberImplements == Inv /\ RecvNumber => [Channel!Next]_(Channel!vars)
  <1> SUFFICES ASSUME Inv, RecvNumber PROVE Channel!Next \/ UNCHANGED Channel!vars
    OBVIOUS
  <1>1. /\ Types /\ Lined /\ Faithful /\ rpc = "len" /\ stream # <<>> /\ UNCHANGED sender
        /\ packets \in Seq(0..MaxLen)
    BY DEF Inv, InStep, RecvNumber, Over, Types, TypeOK
  <1>2. /\ Len(received) + 1 \in 1..Len(packets)
        /\ stream[1] = TheLength(packets[Len(received) + 1])
    BY <1>1, NumberInFront
  <1>3. number' = packets[Len(received) + 1]
    BY <1>1, <1>2 DEF RecvNumber, TheLength, Types
  <1>4. CASE number' = 0
    <2>1. Payload(Len(received) + 1) = <<>>
      BY <1>2, <1>3, <1>4 DEF Payload
    <2>2. Deliver(Payload(Len(received) + 1))
      BY <1>4, <2>1 DEF RecvNumber
    <2>3. Len(received) + 1 <= Len(packets)
      BY <1>1, <1>2, TypeFacts
    <2> QED BY <1>1, <2>2, <2>3, ReceiveImplements DEF Channel!Next
  <1>5. CASE number' # 0
    <2>1. packets' = packets /\ received' = received /\ spc' = spc
      BY <1>1, <1>5 DEF RecvNumber, sender
    <2> QED BY <2>1, StutterImplements
  <1> QED BY <1>4, <1>5

LEMMA ReadImplements ==
  ASSUME Inv, NEW k \in 1..MaxLen, ReadBytes(k)
  PROVE  [Channel!Next]_(Channel!vars)
  <1>1. Types /\ InStep' /\ rpc = "body" /\ UNCHANGED sender /\ Faithful
    BY ReadInv DEF Inv, ReadBytes, InStep, Over
  <1>2. packets' = packets /\ spc' = spc
    BY <1>1 DEF sender
  <1>3. PICK data : data = buffer \o SubSeq(stream, 1, k)
    OBVIOUS
  <1>4. CASE Len(data) = number
    <2>1. Deliver(data)
      BY <1>3, <1>4 DEF ReadBytes
    <2>2. PICK R \in Nat : R = Len(received) /\ R + 1 \in 1..Len(packets)
      BY <1>1, TypeFacts DEF Faithful, ReadsInside
    <2>3. /\ Len(received') = R + 1 /\ received'[R + 1] = data
      <3>1. received' = Append(received, data) /\ received \in Seq(Seq(CharType))
        BY <1>1, <2>1 DEF Deliver, Types
      <3> QED BY <2>2, <3>1
    <2>4. received'[R + 1] = Payload(R + 1)'
      BY <1>1, <2>2, <2>3 DEF InStep, Faithful
    <2>5. Payload(R + 1)' = Payload(R + 1)
      BY <1>2 DEF Payload, Byte
    <2>6. Deliver(Payload(Len(received) + 1)) /\ Len(received) + 1 <= Len(packets)
      BY <1>1, <2>1, <2>2, <2>3, <2>4, <2>5, TypeFacts
    <2>7. Channel!Receive
      BY <1>1, <2>6, ReceiveImplements
    <2> QED BY <2>7 DEF Channel!Next
  <1>5. CASE Len(data) # number
    <2>1. received' = received
      BY <1>3, <1>5 DEF ReadBytes
    <2>2. UNCHANGED Channel!vars
      BY <1>2, <2>1, StutterImplements
    <2> QED BY <2>2
  <1> QED BY <1>4, <1>5

LEMMA EndAtLengthImplements == Inv /\ EndAtLength => [Channel!Next]_(Channel!vars)
  <1> SUFFICES ASSUME Inv, EndAtLength PROVE [Channel!Next]_(Channel!vars)
    OBVIOUS
  <1>1. Types /\ rpc = "len" /\ AtEnd /\ UNCHANGED sender
    BY DEF Inv, EndAtLength
  <1>2. CASE waits
    <2>1. packets' = packets /\ received' = received /\ spc' = spc
      BY <1>1, <1>2 DEF EndAtLength, sender
    <2>2. UNCHANGED Channel!vars
      BY <2>1, StutterImplements
    <2> QED BY <2>2
  <1>3. CASE ~waits
    <2>1. Deliver(<<>>)
      BY <1>3 DEF EndAtLength
    <2>2. Len(received) >= Len(packets)
      <3>1. CASE InStep
        BY <1>1, <3>1, AllRead, TypeFacts DEF InStep, AtEnd, ReadsInside
      <3>2. CASE Over
        BY <1>1, <3>2, TypeFacts DEF Over
      <3> QED BY <3>1, <3>2 DEF Inv
    <2>3. Channel!ReceiveNothing
      BY <1>1, <2>1, <2>2, ReceiveNothingImplements
    <2> QED BY <2>3 DEF Channel!Next
  <1> QED BY <1>2, <1>3

LEMMA EndInPacketImplements == Inv /\ EndInPacket => [Channel!Next]_(Channel!vars)
  <1> SUFFICES ASSUME Inv, EndInPacket PROVE [Channel!Next]_(Channel!vars)
    OBVIOUS
  <1>1. Types /\ rpc = "body" /\ AtEnd /\ UNCHANGED sender /\ Lined /\ Faithful
    BY DEF Inv, EndInPacket, InStep, Over
  <1>2. CASE waits
    <2>1. packets' = packets /\ received' = received /\ spc' = spc
      BY <1>1, <1>2 DEF EndInPacket, sender
    <2>2. UNCHANGED Channel!vars
      BY <2>1, StutterImplements
    <2> QED BY <2>2
  <1>3. CASE ~waits
    <2>1. Deliver(Padded)
      BY <1>3 DEF EndInPacket
    <2>2. Len(packets) = Len(received) + 1
      BY <1>1, AllRead DEF AtEnd, ReadsInside
    <2>3. /\ buffer = Prefix(Len(packets), Len(buffer))
          /\ number = packets[Len(packets)] /\ Len(buffer) < number
      BY <1>1, <2>2 DEF Faithful, ReadsInside
    <2>4. Channel!ReceiveCut
      BY <1>1, <2>1, <2>2, <2>3, ReceiveCutImplements
    <2> QED BY <2>4 DEF Channel!Next
  <1> QED BY <1>2, <1>3

LEMMA StepImplements == Inv /\ Inv' /\ [Next]_vars => [Channel!Next]_(Channel!vars)
  <1> SUFFICES ASSUME Inv, Inv', [Next]_vars PROVE [Channel!Next]_(Channel!vars)
    OBVIOUS
  <1>1. ASSUME UNCHANGED vars PROVE UNCHANGED Channel!vars
    <2>1. packets' = packets /\ received' = received /\ spc' = spc
      BY <1>1 DEF vars, sender, receiver
    <2> QED BY <2>1, StutterImplements
  <1>2. ASSUME NEW len \in 0..MaxLen, SendNumber(len) PROVE Channel!Next
    BY <1>2, SendImplements DEF Channel!Next
  <1>3. ASSUME NEW k \in 1..MaxLen, WriteBytes(k) PROVE UNCHANGED Channel!vars
    <2>1. packets' = packets /\ received' = received /\ spc # "gone" /\ spc' # "gone"
      BY <1>3 DEF WriteBytes, receiver
    <2> QED BY <2>1, StutterImplements
  <1>4. ASSUME NEW k \in 1..MaxLen, ReadBytes(k) PROVE [Channel!Next]_(Channel!vars)
    BY <1>4, ReadImplements
  <1>5. ASSUME Leave PROVE Channel!Next
    <2>1. Sent' = Sent /\ received' = received /\ spc # "gone" /\ spc' = "gone"
      BY <1>5 DEF Leave, receiver, Sent, Payload, Byte
    <2>2. ~(spc = "gone") /\ (spc = "gone")' = TRUE /\ UNCHANGED <<Sent, received>>
      BY <2>1
    <2>3. Channel!Close
      BY <2>2 DEF Channel!Close
    <2> QED BY <2>3 DEF Channel!Next
  <1>6. CASE RecvNumber
    BY <1>6, RecvNumberImplements
  <1>7. CASE EndAtLength
    BY <1>7, EndAtLengthImplements
  <1>8. CASE EndInPacket
    BY <1>8, EndInPacketImplements
  <1> QED BY <1>1, <1>2, <1>3, <1>4, <1>5, <1>6, <1>7, <1>8 DEF Next

\* The loops deliver the packets of send_data and ocall_send_packet whole and in
\* order to recv_data and lrecv_response, over any splitting of what is written.
\* Once the sender is gone lrecv_response hands on the packet that was under way in
\* its announced length, zeros for what is missing, and then only empty ones:
\* nothing but the last packet is ever cut, and what arrived of it is in place.
THEOREM PacketsKeepTheirShape == Spec => ChannelSpec
  <1>1. Init => Channel!Init
    <2> SUFFICES ASSUME Init PROVE Channel!Init
      OBVIOUS
    <2>1. Sent = <<>> /\ received = <<>> /\ (spc = "gone") = FALSE
      BY DEF Init, Sent
    <2> QED BY <2>1 DEF Channel!Init
  <1>2. Inv /\ Inv' /\ [Next]_vars => [Channel!Next]_(Channel!vars)
    BY StepImplements
  <1> QED BY <1>1, <1>2, Invariance, PTL DEF Spec, ChannelSpec, Channel!Spec
=============================================================================
